---- MODULE Spec2Model ----
(***************************************************************************)
(* A model of the computational core of the CPU ray tracer: the axis       *)
(* aligned bounding box (BoundingVolume.h), the bounding volume hierarchy  *)
(* (BVH.h) with its triangle primitives (TriangleMesh.h), the brute-force  *)
(* nearest-hit scan of the Whitted renderer (Renderer.h) and the temporal  *)
(* pass of the denoiser (Denoiser.h).                                      *)
(*                                                                         *)
(* Floating-point values are modelled as exact extended rationals: a pair  *)
(* <<n, d>> with d > 0 in lowest terms is the number n/d, <<1, 0>> is      *)
(* +infinity, <<-1, 0>> is -infinity and <<0, 0>> is NaN.  Rounding and    *)
(* the sign of zero are not modelled.                                      *)
(***************************************************************************)
EXTENDS Integers, Sequences, FiniteSets, TLC

VARIABLES
    \* ---- AABB_3D under test (BoundingVolume.h) ----
    this_box,       \* the AABB_3D object a method is called on
    aabb_op,        \* name of the last constructor / method that ran
    arg_box,        \* its AABB_3D argument (default box when it has none)
    arg_point,      \* its glm::vec3 argument (origin when it has none)
    arg_ray,        \* its Ray argument (NoRay when it has none)
    ret_box,        \* its AABB_3D result
    ret_bool,       \* its bool result
    ret_axis,       \* its int result (longest_axis)
    \* ---- BVH (BVH.h) and the linear scan (Renderer.h) ----
    bvh_op,         \* name of the last BVH operation ("none" before BVH::BVH)
    m_primitives,   \* BVH::m_primitives, a sequence of entities
    root,           \* BVH::root, a tree of BVH_Node records or NullNode
    ray,            \* the ray last handed to traverse_BVH_from_root
    record,         \* the IntersectionRecord it returned
    payload,        \* the result of get_intersection_payload for that ray
    \* ---- Denoiser (Denoiser.h) ----
    frame_width, frame_height,
    using_temporal_filtering,
    current_frame_weighting,
    accessible_previous_frame,
    g_buffer,                   \* the current frame's G_Buffer
    previous_frame_g_buffer,    \* Denoiser::previous_frame_g_buffer
    filtered_frame_buffer,      \* the output buffer of TemporalFiltering
    dn_op,                      \* name of the last denoiser operation
    dn_entry,                   \* what the last TemporalFiltering call saw on entry
    frames,                     \* number of frames shaded so far
    restarted,                  \* RestartTemporal has been called since the last TemporalFiltering call
    \* ---- Renderer (Renderer.h) and control panel (mainloop.cpp) ----
    settings,                   \* Renderer::settings
    denoiser,                   \* Renderer::denoiser, its scalar data members
    frame_image_final,          \* <<>> before the first ResizeViewport, then <<width, height>>
    buffers,                    \* the frame-sized buffers, as dimensions and last writer
    rn_op,                      \* name of the last renderer operation
    invalidated,                \* the viewport has changed size since the last temporal pass
    last_frame,                 \* what the last Render found and used
    chosen,                     \* per filter, the kernel size of the option chosen last (0: none)
    \* ---- the parallel loops of Render (Renderer.cpp, Denoiser.h) ----
    pass,                       \* the loop of Render in progress, "idle" between two Render calls
    done,                       \* per loop, the pixels whose worker has finished
    frame_buffers,              \* the frame-sized buffers, entry by entry
    switches,                   \* the denoiser's flags during the Render in progress
    sight,                      \* what the camera of the Render in progress sees
    accesses,                   \* the buffer entries read and written by the loop in progress
    at_entry,                   \* frame_buffers when the loop in progress started
    renders,                    \* number of Render calls that have returned
    \* ---- the packing of one pixel (Renderer.cpp) ----
    filtered_color,             \* temporal_filtered_frame_buffer(x, y)
    frame_data_entry,           \* frame_data[y * width + x], the 32 bits of the word
    undefined_bytes,            \* what the float-to-uint8_t conversions gave where undefined
    pk_op,                      \* name of the last step
    \* ---- the light-transport integrators (Renderer.cpp) ----
    call_stack,                 \* the activation records of the ray caster, innermost last
    radiance,                   \* what the last evaluation of a camera ray returned (NoRadiance while one runs)
    traversals,                 \* the bounce counts of the rays traced in this evaluation
    outer_calls,                \* calls older than those on call_stack are pending (path tracer)
    it_op                       \* name of the last step of the integrator

aabb_vars == <<this_box, aabb_op, arg_box, arg_point, arg_ray, ret_box, ret_bool, ret_axis>>
bvh_vars == <<bvh_op, m_primitives, root, ray, record, payload>>
dn_vars == <<frame_width, frame_height, using_temporal_filtering, current_frame_weighting,
             accessible_previous_frame,
             g_buffer, previous_frame_g_buffer, filtered_frame_buffer, dn_op, dn_entry, frames,
             restarted>>
rn_vars == <<settings, denoiser, frame_image_final, buffers, rn_op, invalidated, last_frame,
             chosen>>
wk_vars == <<pass, done, frame_buffers, switches, sight, accesses, at_entry, renders>>
pk_vars == <<filtered_color, frame_data_entry, undefined_bytes, pk_op>>
it_vars == <<call_stack, radiance, traversals, outer_calls, it_op>>
vars == <<aabb_vars, bvh_vars, dn_vars, rn_vars, wk_vars, pk_vars, it_vars>>

(***************************************************************************)
(* Extended rational arithmetic (IEEE semantics of infinities and NaN).    *)
(***************************************************************************)
RECURSIVE GCD(_, _)
GCD(a, b) == IF b = 0 THEN a ELSE GCD(b, a % b)

Abs(n) == IF n < 0 THEN -n ELSE n
Sign(n) == IF n > 0 THEN 1 ELSE IF n < 0 THEN -1 ELSE 0

Norm(n, d) ==
    IF d = 0 THEN <<Sign(n), 0>>
    ELSE LET s == IF d < 0 THEN -1 ELSE 1
             g == GCD(Abs(n), Abs(d))
         IN  <<(s * n) \div g, (s * d) \div g>>

R(n) == <<n, 1>>
Q(n, d) == Norm(n, d)
PosInf == <<1, 0>>
NegInf == <<-1, 0>>
NaN == <<0, 0>>
Zero == <<0, 1>>
One == <<1, 1>>

IsNaN(a) == a = NaN
IsInf(a) == a[2] = 0 /\ a[1] # 0
IsFinite(a) == a[2] > 0

FLt(a, b) ==
    /\ ~IsNaN(a)
    /\ ~IsNaN(b)
    /\ IF a[2] = 0 /\ b[2] = 0 THEN a[1] < b[1] ELSE a[1] * b[2] < b[1] * a[2]
FLe(a, b) == ~IsNaN(a) /\ ~IsNaN(b) /\ (a = b \/ FLt(a, b))
FGt(a, b) == FLt(b, a)
FGe(a, b) == FLe(b, a)
FEq(a, b) == ~IsNaN(a) /\ ~IsNaN(b) /\ a = b

FNeg(a) == <<-a[1], a[2]>>
FAdd(a, b) ==
    IF IsNaN(a) \/ IsNaN(b) THEN NaN
    ELSE IF a[2] = 0 /\ b[2] = 0 THEN Norm(a[1] + b[1], 0)
    ELSE Norm(a[1] * b[2] + b[1] * a[2], a[2] * b[2])
FSub(a, b) == FAdd(a, FNeg(b))
FMul(a, b) == Norm(a[1] * b[1], a[2] * b[2])
\* 1.0f / x: 1/0 is +infinity (the sign of zero is not modelled), 1/inf is 0
FRecip(a) ==
    IF IsNaN(a) THEN NaN
    ELSE IF a[2] = 0 THEN Zero
    ELSE IF a[1] = 0 THEN PosInf
    ELSE Norm(a[2], a[1])
FDiv(a, b) ==
    IF IsNaN(a) \/ IsNaN(b) THEN NaN
    ELSE IF b[2] # 0 /\ b[1] = 0 THEN Norm(a[1], 0)
    ELSE FMul(a, FRecip(b))

\* std::max(a, b) is (a < b) ? b : a and std::min(a, b) is (b < a) ? b : a
std_max(a, b) == IF FLt(a, b) THEN b ELSE a
std_min(a, b) == IF FLt(b, a) THEN b ELSE a
\* glm::min(x, y) is (y < x) ? y : x and glm::max(x, y) is (x < y) ? y : x
glm_min(x, y) == IF FLt(y, x) THEN y ELSE x
glm_max(x, y) == IF FLt(x, y) THEN y ELSE x
\* std::fmin / std::fmax ignore a NaN operand
std_fmin(a, b) == IF IsNaN(a) THEN b ELSE IF IsNaN(b) THEN a ELSE IF FLt(b, a) THEN b ELSE a
std_fmax(a, b) == IF IsNaN(a) THEN b ELSE IF IsNaN(b) THEN a ELSE IF FLt(a, b) THEN b ELSE a

\* glm::vec3 operations, componentwise
Vec(x, y, z) == <<x, y, z>>
VecI(x, y, z) == <<R(x), R(y), R(z)>>
VSub(u, v) == <<FSub(u[1], v[1]), FSub(u[2], v[2]), FSub(u[3], v[3])>>
VAdd(u, v) == <<FAdd(u[1], v[1]), FAdd(u[2], v[2]), FAdd(u[3], v[3])>>
VScale(s, v) == <<FMul(s, v[1]), FMul(s, v[2]), FMul(s, v[3])>>
glm_dot(u, v) == FAdd(FAdd(FMul(u[1], v[1]), FMul(u[2], v[2])), FMul(u[3], v[3]))
glm_cross(u, v) ==
    <<FSub(FMul(u[2], v[3]), FMul(v[2], u[3])),
      FSub(FMul(u[3], v[1]), FMul(v[3], u[1])),
      FSub(FMul(u[1], v[2]), FMul(v[1], u[2]))>>
glm_min3(u, v) == <<glm_min(u[1], v[1]), glm_min(u[2], v[2]), glm_min(u[3], v[3])>>
glm_max3(u, v) == <<glm_max(u[1], v[1]), glm_max(u[2], v[2]), glm_max(u[3], v[3])>>

(***************************************************************************)
(* AccelerationStructure::Ray (Ray.h)                                      *)
(***************************************************************************)
\* Ray::Ray caches the componentwise reciprocal of the direction
Ray(origin, direction) ==
    [m_origin |-> origin,
     m_direction |-> direction,
     direction_reciprocal |-> <<FRecip(direction[1]), FRecip(direction[2]), FRecip(direction[3])>>]

\* Ray::operator()(t)
RayAt(r, t) == VAdd(r.m_origin, VScale(t, r.m_direction))

NoRay == Ray(VecI(0, 0, 0), VecI(0, 0, 0))

(***************************************************************************)
(* AccelerationStructure::AABB_3D (BoundingVolume.h)                       *)
(***************************************************************************)
X_axis == 0
Y_axis == 1
Z_axis == 2

\* AABB_3D(): the box that contains nothing
AABB_3D ==
    [min_slab_values |-> <<PosInf, PosInf, PosInf>>,
     max_slab_values |-> <<NegInf, NegInf, NegInf>>]

\* AABB_3D(point)
AABB_3D_point(point) == [min_slab_values |-> point, max_slab_values |-> point]

\* AABB_3D(point_1, point_2)
AABB_3D_diagonal(point_1, point_2) ==
    [min_slab_values |-> <<std_fmin(point_1[1], point_2[1]), std_fmin(point_1[2], point_2[2]),
                           std_fmin(point_1[3], point_2[3])>>,
     max_slab_values |-> <<std_fmax(point_1[1], point_2[1]), std_fmax(point_1[2], point_2[2]),
                           std_fmax(point_1[3], point_2[3])>>]

contains_point(b, point) ==
    /\ FLe(b.min_slab_values[1], point[1]) /\ FLe(point[1], b.max_slab_values[1])
    /\ FLe(b.min_slab_values[2], point[2]) /\ FLe(point[2], b.max_slab_values[2])
    /\ FLe(b.min_slab_values[3], point[3]) /\ FLe(point[3], b.max_slab_values[3])

\* mutant: strict comparisons, so boxes that only touch do not intersect
intersects_with_3D_AABB_strict(b, box) ==
    /\ FGt(b.max_slab_values[1], box.min_slab_values[1]) /\ FLt(b.min_slab_values[1], box.max_slab_values[1])
    /\ FGt(b.max_slab_values[2], box.min_slab_values[2]) /\ FLt(b.min_slab_values[2], box.max_slab_values[2])
    /\ FGt(b.max_slab_values[3], box.min_slab_values[3]) /\ FLt(b.min_slab_values[3], box.max_slab_values[3])

intersects_with_3D_AABB(b, box) ==
    /\ FGe(b.max_slab_values[1], box.min_slab_values[1]) /\ FLe(b.min_slab_values[1], box.max_slab_values[1])
    /\ FGe(b.max_slab_values[2], box.min_slab_values[2]) /\ FLe(b.min_slab_values[2], box.max_slab_values[2])
    /\ FGe(b.max_slab_values[3], box.min_slab_values[3]) /\ FLe(b.min_slab_values[3], box.max_slab_values[3])

center_vector(b) == VScale(Q(1, 2), VAdd(b.max_slab_values, b.min_slab_values))

diagonal_vector(b) == VSub(b.max_slab_values, b.min_slab_values)

\* mutant: non-strict comparisons, so a tie goes to the first axis
longest_axis_first_wins(b) ==
    LET diagonal == diagonal_vector(b)
    IN  IF FGe(diagonal[1], diagonal[2]) /\ FGe(diagonal[1], diagonal[3]) THEN X_axis
        ELSE IF FGe(diagonal[2], diagonal[3]) THEN Y_axis
        ELSE Z_axis

longest_axis(b) ==
    LET diagonal == diagonal_vector(b)
    IN  IF FGt(diagonal[1], diagonal[2]) /\ FGt(diagonal[1], diagonal[3]) THEN X_axis
        ELSE IF FGt(diagonal[2], diagonal[3]) THEN Y_axis
        ELSE Z_axis

Union_with_point(b, point) ==
    [min_slab_values |-> glm_min3(b.min_slab_values, point),
     max_slab_values |-> glm_max3(b.max_slab_values, point)]

\* mutant: the maximum corner is not extended
Union_with_3D_AABB_keeps_max(b, box) ==
    [min_slab_values |-> glm_min3(b.min_slab_values, box.min_slab_values),
     max_slab_values |-> b.max_slab_values]

Union_with_3D_AABB(b, box) ==
    [min_slab_values |-> glm_min3(b.min_slab_values, box.min_slab_values),
     max_slab_values |-> glm_max3(b.max_slab_values, box.max_slab_values)]

\* the flags BVH::traverse_BVH_from_node passes as ray_direction_is_negative
direction_is_negative(r) ==
    <<FLt(r.m_direction[1], Zero), FLt(r.m_direction[2], Zero), FLt(r.m_direction[3], Zero)>>

\* the slab values of one axis after the swap for a negative direction
SlabIn(b, r, recip, neg, i) ==
    LET t_in == FMul(FSub(b.min_slab_values[i], r.m_origin[i]), recip[i])
        t_out == FMul(FSub(b.max_slab_values[i], r.m_origin[i]), recip[i])
    IN  IF neg[i] THEN t_out ELSE t_in
SlabOut(b, r, recip, neg, i) ==
    LET t_in == FMul(FSub(b.min_slab_values[i], r.m_origin[i]), recip[i])
        t_out == FMul(FSub(b.max_slab_values[i], r.m_origin[i]), recip[i])
    IN  IF neg[i] THEN t_in ELSE t_out

\* mutant: entry and exit are not swapped for negative directions
intersects_with_ray_no_swap(b, r, ray_direction_reciprocal, ray_direction_is_negative) ==
    LET no == <<FALSE, FALSE, FALSE>>
        t_in == std_max(SlabIn(b, r, ray_direction_reciprocal, no, 1),
                        std_max(SlabIn(b, r, ray_direction_reciprocal, no, 2),
                                SlabIn(b, r, ray_direction_reciprocal, no, 3)))
        t_out == std_min(SlabOut(b, r, ray_direction_reciprocal, no, 1),
                         std_min(SlabOut(b, r, ray_direction_reciprocal, no, 2),
                                 SlabOut(b, r, ray_direction_reciprocal, no, 3)))
    IN  FGe(t_out, Zero) /\ FLe(t_in, t_out)

intersects_with_ray(b, r, ray_direction_reciprocal, ray_direction_is_negative) ==
    LET t_in_x == SlabIn(b, r, ray_direction_reciprocal, ray_direction_is_negative, 1)
        t_in_y == SlabIn(b, r, ray_direction_reciprocal, ray_direction_is_negative, 2)
        t_in_z == SlabIn(b, r, ray_direction_reciprocal, ray_direction_is_negative, 3)
        t_out_x == SlabOut(b, r, ray_direction_reciprocal, ray_direction_is_negative, 1)
        t_out_y == SlabOut(b, r, ray_direction_reciprocal, ray_direction_is_negative, 2)
        t_out_z == SlabOut(b, r, ray_direction_reciprocal, ray_direction_is_negative, 3)
        t_in == std_max(t_in_x, std_max(t_in_y, t_in_z))
        t_out == std_min(t_out_x, std_min(t_out_y, t_out_z))
    IN  FGe(t_out, Zero) /\ FLe(t_in, t_out)

(***************************************************************************)
(* Inputs of the bounding-box operations.                                  *)
(***************************************************************************)
MaxCoord == 2

\* corners of boxes lie on the integer grid 0..MaxCoord
GridPoints == {VecI(x, y, z) : x \in 0..MaxCoord, y \in 0..MaxCoord, z \in 0..MaxCoord}
\* the initial values of mesh_range_min / mesh_range_max in TriangleMesh::TriangleMesh
mesh_range_min_init == <<PosInf, PosInf, PosInf>>
mesh_range_max_init == <<NegInf, NegInf, NegInf>>
BoxOfEverything == AABB_3D_diagonal(mesh_range_min_init, mesh_range_max_init)
\* the boxes the program builds: the empty box, boxes of finite points, and the
\* bounding box a mesh without vertices gets
DiagonalPairs == (GridPoints \X GridPoints) \cup {<<mesh_range_min_init, mesh_range_max_init>>}
Boxes == {AABB_3D} \cup {AABB_3D_diagonal(pq[1], pq[2]) : pq \in DiagonalPairs}
\* box arguments of the binary operations: the special boxes and the boxes with
\* corners on the coarse grid {0, MaxCoord}
CoarsePoints == {VecI(x, y, z) : x \in {0, MaxCoord}, y \in {0, MaxCoord}, z \in {0, MaxCoord}}
ArgBoxes == {AABB_3D, AABB_3D_diagonal(mesh_range_min_init, mesh_range_max_init)}
            \cup {AABB_3D_diagonal(p, q) : p \in CoarsePoints, q \in CoarsePoints}

\* ray origins outside, on the boundary of and inside grid boxes
OriginCoords == {R(-1), Q(1, 2), R(MaxCoord)}
RayOrigins == {Vec(x, y, z) : x \in OriginCoords, y \in OriginCoords, z \in OriginCoords}
DirCoords == {-1, 0, 1}
RayDirections == {VecI(x, y, z) : x \in DirCoords, y \in DirCoords, z \in DirCoords} \ {VecI(0, 0, 0)}
Rays == {Ray(o, d) : o \in RayOrigins, d \in RayDirections}

ZeroVec == VecI(0, 0, 0)

(***************************************************************************)
(* The bounding-box operations as actions on one AABB_3D object.           *)
(***************************************************************************)
AABBInit ==
    /\ this_box = AABB_3D
    /\ aabb_op = "AABB_3D"
    /\ arg_box = AABB_3D
    /\ arg_point = ZeroVec
    /\ arg_ray = NoRay
    /\ ret_box = AABB_3D
    /\ ret_bool = FALSE
    /\ ret_axis = X_axis

\* what a call leaves in the argument and result slots it does not use
AABBCall(op, b, pt, r, rb, rbool, raxis) ==
    /\ UNCHANGED <<bvh_vars, dn_vars, rn_vars, wk_vars, pk_vars, it_vars>>
    /\ aabb_op' = op
    /\ arg_box' = b
    /\ arg_point' = pt
    /\ arg_ray' = r
    /\ ret_box' = rb
    /\ ret_bool' = rbool
    /\ ret_axis' = raxis

\* an object is constructed once; the methods below are const and run on it
Constructed == aabb_op \in {"AABB_3D", "AABB_3D(point)", "AABB_3D(point_1,point_2)"}
Fresh == aabb_op = "AABB_3D"

Construct_from_point ==
    /\ Fresh
    /\ \E p \in GridPoints :
        /\ this_box' = AABB_3D_point(p)
        /\ AABBCall("AABB_3D(point)", AABB_3D, ZeroVec, NoRay, AABB_3D, FALSE, X_axis)

Construct_from_diagonal ==
    /\ Fresh
    /\ \E pq \in DiagonalPairs :
        /\ this_box' = AABB_3D_diagonal(pq[1], pq[2])
        /\ AABBCall("AABB_3D(point_1,point_2)", AABB_3D, ZeroVec, NoRay, AABB_3D, FALSE, X_axis)

Call_contains_point ==
    /\ Constructed
    /\ \E p \in GridPoints \cup RayOrigins :
        /\ AABBCall("contains_point", AABB_3D, p, NoRay, AABB_3D, contains_point(this_box, p), X_axis)
        /\ UNCHANGED this_box

Call_intersects_with_3D_AABB ==
    /\ Constructed
    /\ \E b \in ArgBoxes :
        /\ AABBCall("intersects_with_3D_AABB", b, ZeroVec, NoRay, AABB_3D,
                    intersects_with_3D_AABB(this_box, b), X_axis)
        /\ UNCHANGED this_box

Call_longest_axis ==
    /\ Constructed
    /\ AABBCall("longest_axis", AABB_3D, ZeroVec, NoRay, AABB_3D, FALSE, longest_axis(this_box))
    /\ UNCHANGED this_box

Call_Union_with_point ==
    /\ Constructed
    /\ \E p \in GridPoints :
        /\ AABBCall("Union_with_point", AABB_3D, p, NoRay, Union_with_point(this_box, p), FALSE, X_axis)
        /\ UNCHANGED this_box

Call_Union_with_3D_AABB ==
    /\ Constructed
    /\ \E b \in ArgBoxes :
        /\ AABBCall("Union_with_3D_AABB", b, ZeroVec, NoRay, Union_with_3D_AABB(this_box, b), FALSE, X_axis)
        /\ UNCHANGED this_box

Call_intersects_with_ray ==
    /\ Constructed
    /\ \E r \in Rays :
        /\ AABBCall("intersects_with_ray", AABB_3D, ZeroVec, r, AABB_3D,
                    intersects_with_ray(this_box, r, r.direction_reciprocal, direction_is_negative(r)),
                    X_axis)
        /\ UNCHANGED this_box

AABBNext ==
    \/ Construct_from_point
    \/ Construct_from_diagonal
    \/ Call_contains_point
    \/ Call_intersects_with_3D_AABB
    \/ Call_longest_axis
    \/ Call_Union_with_point
    \/ Call_Union_with_3D_AABB
    \/ Call_intersects_with_ray

(***************************************************************************)
(* Entities (Sphere.h, TriangleMesh.h) and the BVH (BVH.h).                *)
(*                                                                         *)
(* An Entity* is modelled by the entity's address: <<i>> is the i-th       *)
(* entity of the scene and <<i, j>> the j-th triangle of the mesh that is   *)
(* the i-th entity; the empty tuple is the null pointer.                   *)
(***************************************************************************)
nullptr == <<>>
\* a null BVH_Node*
NullNode == [is_null |-> TRUE]

\* IntersectionRecord::IntersectionRecord: "no hit", t = numeric_limits::max
IntersectionRecord ==
    [has_intersection |-> FALSE, t |-> PosInf, location |-> ZeroVec, hitted_entity |-> nullptr]

\* Whitted::RayTriangleIntersection (Moller-Trumbore); t_intersection is the
\* out-parameter.  Each step takes the locals computed so far as parameters.
RayTriangleIntersection_accept(t_intersection, barycentric_coordinate_2, barycentric_coordinate_3) ==
    [hit |-> /\ FGt(t_intersection, Zero)
             /\ FGt(barycentric_coordinate_2, Zero)
             /\ FGt(barycentric_coordinate_3, Zero)
             /\ FGt(FSub(FSub(One, barycentric_coordinate_2), barycentric_coordinate_3), Zero),
     t_intersection |-> t_intersection]
RayTriangleIntersection_scaled(E_2, S, ray_direction, S_1, S_2, inverse_denominator) ==
    RayTriangleIntersection_accept(FMul(glm_dot(S_2, E_2), inverse_denominator),
                                   FMul(glm_dot(S_1, S), inverse_denominator),
                                   FMul(glm_dot(S_2, ray_direction), inverse_denominator))
RayTriangleIntersection_crossed(E_1, E_2, S, ray_direction, S_1, S_2) ==
    RayTriangleIntersection_scaled(E_2, S, ray_direction, S_1, S_2, FRecip(glm_dot(S_1, E_1)))
RayTriangleIntersection_edges(E_1, E_2, S, ray_direction) ==
    RayTriangleIntersection_crossed(E_1, E_2, S, ray_direction,
                                    glm_cross(ray_direction, E_2), glm_cross(S, E_1))
RayTriangleIntersection(vertice_1, vertice_2, vertice_3, ray_origin, ray_direction) ==
    RayTriangleIntersection_edges(VSub(vertice_2, vertice_1), VSub(vertice_3, vertice_1),
                                  VSub(ray_origin, vertice_1), ray_direction)

\* floor of the square root of a natural number
ISqrt(n) == CHOOSE k \in 0..n : k * k <= n /\ (k + 1) * (k + 1) > n
\* std::sqrt, exact on the squares of rationals (the only arguments it is given here)
FSqrt(a) == IF a[2] = 0 \/ a[1] < 0 THEN NaN ELSE Norm(ISqrt(a[1] * a[2]), a[2])
IsExactSquare(a) == a[2] > 0 /\ a[1] >= 0 /\ FMul(FSqrt(a), FSqrt(a)) = a

\* Whitted::QuadraticFormula; ok is the returned bool, x_small and x_large the
\* out-parameters.  Each step takes the locals computed so far as parameters.
QuadraticFormula_ordered(x_small, x_large) ==
    IF FGt(x_small, x_large) THEN [ok |-> TRUE, x_small |-> x_large, x_large |-> x_small]
    ELSE [ok |-> TRUE, x_small |-> x_small, x_large |-> x_large]
QuadraticFormula_q(A, C, q) == QuadraticFormula_ordered(FDiv(q, A), FDiv(C, q))
QuadraticFormula_double_root(x) == QuadraticFormula_ordered(x, x)
QuadraticFormula_roots(A, B, C, discriminant) ==
    IF FLt(discriminant, Zero) THEN [ok |-> FALSE, x_small |-> Zero, x_large |-> Zero]
    ELSE IF discriminant = Zero THEN QuadraticFormula_double_root(FDiv(FMul(Q(-1, 2), B), A))
    ELSE IF FGt(B, Zero) THEN QuadraticFormula_q(A, C, FMul(Q(-1, 2), FAdd(B, FSqrt(discriminant))))
    ELSE QuadraticFormula_q(A, C, FMul(Q(-1, 2), FSub(B, FSqrt(discriminant))))
QuadraticFormula(A, B, C) ==
    QuadraticFormula_roots(A, B, C, FSub(FMul(B, B), FMul(R(4), FMul(A, C))))

\* the coefficients Sphere::GetIntersectionRecord hands to QuadraticFormula
Sphere_A(r) == glm_dot(r.m_direction, r.m_direction)
Sphere_B(r, center_to_light_origin) == FMul(R(2), glm_dot(r.m_direction, center_to_light_origin))
Sphere_C(e, center_to_light_origin) ==
    FSub(glm_dot(center_to_light_origin, center_to_light_origin), e.radius_squared)
\* and the discriminant QuadraticFormula computes of them
Discriminant(A, B, C) == FSub(FMul(B, B), FMul(R(4), FMul(A, C)))
SphereDiscriminant(e, r) ==
    Discriminant(Sphere_A(r), Sphere_B(r, VSub(r.m_origin, e.m_center)),
                 Sphere_C(e, VSub(r.m_origin, e.m_center)))

\* the three kinds of Entity
TrianglePrimitive(a, b, c) ==
    [kind |-> "TrianglePrimitive", vertice_a |-> a, vertice_b |-> b, vertice_c |-> c]
Sphere(center, radius) ==
    [kind |-> "Sphere", m_center |-> center, m_radius |-> radius, radius_squared |-> FMul(radius, radius)]

\* TrianglePrimitive::Get3DAABB
Triangle_Get3DAABB(e) == Union_with_point(AABB_3D_diagonal(e.vertice_a, e.vertice_b), e.vertice_c)
\* Sphere::Get3DAABB
Sphere_Get3DAABB(e) ==
    AABB_3D_diagonal(<<FAdd(e.m_center[1], e.m_radius), FAdd(e.m_center[2], e.m_radius), FAdd(e.m_center[3], e.m_radius)>>,
                     <<FSub(e.m_center[1], e.m_radius), FSub(e.m_center[2], e.m_radius), FSub(e.m_center[3], e.m_radius)>>)
\* Entity::Get3DAABB (TriangleMesh::Get3DAABB returns the stored bounding_AABB)
Get3DAABB(e) ==
    IF e.kind = "TrianglePrimitive" THEN Triangle_Get3DAABB(e)
    ELSE IF e.kind = "Sphere" THEN Sphere_Get3DAABB(e)
    ELSE e.bounding_AABB

\* TrianglePrimitive::GetIntersectionRecord; self is the address of the
\* triangle and res what RayTriangleIntersection returned
Triangle_record(res, self, r) ==
    IF res.hit
    THEN [has_intersection |-> TRUE, t |-> res.t_intersection,
          location |-> RayAt(r, res.t_intersection), hitted_entity |-> self]
    ELSE [IntersectionRecord EXCEPT !.t = PosInf]
Triangle_GetIntersectionRecord(e, self, r) ==
    Triangle_record(RayTriangleIntersection(e.vertice_a, e.vertice_b, e.vertice_c, r.m_origin, r.m_direction),
                    self, r)

\* Sphere::GetIntersectionRecord; roots is what QuadraticFormula returned
Sphere_hit(t_small, self, r) ==
    IF FLt(t_small, Zero) THEN IntersectionRecord
    ELSE [has_intersection |-> TRUE, t |-> t_small, location |-> RayAt(r, t_small), hitted_entity |-> self]
Sphere_record(roots, self, r) ==
    IF ~roots.ok THEN IntersectionRecord
    ELSE IF FLt(roots.x_small, Zero) THEN Sphere_hit(roots.x_large, self, r)
    ELSE Sphere_hit(roots.x_small, self, r)
Sphere_coefficients(e, self, r, center_to_light_origin) ==
    Sphere_record(QuadraticFormula(Sphere_A(r), Sphere_B(r, center_to_light_origin),
                                   Sphere_C(e, center_to_light_origin)),
                  self, r)
Sphere_GetIntersectionRecord(e, self, r) ==
    Sphere_coefficients(e, self, r, VSub(r.m_origin, e.m_center))

\* BVH_Node: a leaf and an internal node as build_BVH fills them in
LeafNode(entity, box) == [left |-> NullNode, right |-> NullNode, bounding_volume |-> box, entity |-> entity]
InternalNode_left_box(l, r) ==
    [left |-> l, right |-> r, bounding_volume |-> l.bounding_volume, entity |-> 0]
InternalNode(l, r) ==
    [left |-> l, right |-> r,
     bounding_volume |-> Union_with_3D_AABB(l.bounding_volume, r.bounding_volume),
     entity |-> 0]

\* the box of the centroids build_BVH computes before it sorts
RECURSIVE AABB_of_all_centroids(_, _, _)
AABB_of_all_centroids(prims, entities, i) ==
    IF i = 0 THEN AABB_3D
    ELSE Union_with_point(AABB_of_all_centroids(prims, entities, i - 1),
                          center_vector(Get3DAABB(prims[entities[i]])))

\* the orders std::sort may leave the entities in: every permutation that is
\* sorted by the centroid coordinate on the axis (equal keys in any order)
SortedOrders(prims, entities, axis) ==
    LET n == Len(entities)
        key(e) == center_vector(Get3DAABB(prims[e]))[axis + 1]
    IN  {[i \in 1..n |-> entities[p[i]]] :
            p \in {f \in [1..n -> 1..n] :
                     /\ \A i, j \in 1..n : i # j => f[i] # f[j]
                     /\ \A i \in 1..(n - 1) : ~FLt(key(entities[f[i + 1]]), key(entities[f[i]]))}}

\* BVH::build_BVH: the set of trees it may return for the entities (indices into
\* prims); more than one only where std::sort meets equal keys
RECURSIVE build_BVH(_, _)
build_BVH_drops_last(prims, entities) ==
    IF Len(entities) = 1
    THEN {LeafNode(entities[1], Get3DAABB(prims[entities[1]]))}
    ELSE IF Len(entities) = 2
    THEN {InternalNode(l, r) : l \in build_BVH(prims, <<entities[1]>>), r \in build_BVH(prims, <<entities[2]>>)}
    ELSE LET axis == longest_axis(AABB_of_all_centroids(prims, entities, Len(entities)))
             median == Len(entities) \div 2
         IN  UNION {{InternalNode(l, r) :
                        l \in build_BVH(prims, SubSeq(sorted, 1, median)),
                        r \in build_BVH(prims, SubSeq(sorted, median + 1, Len(sorted) - 1))} :
                    sorted \in SortedOrders(prims, entities, axis)}
build_BVH_splits_off_first(prims, entities) ==
    IF Len(entities) = 1
    THEN {LeafNode(entities[1], Get3DAABB(prims[entities[1]]))}
    ELSE IF Len(entities) = 2
    THEN {InternalNode(l, r) : l \in build_BVH(prims, <<entities[1]>>), r \in build_BVH(prims, <<entities[2]>>)}
    ELSE LET axis == longest_axis(AABB_of_all_centroids(prims, entities, Len(entities)))
         IN  UNION {{InternalNode(l, r) :
                        l \in build_BVH(prims, SubSeq(sorted, 1, 1)),
                        r \in build_BVH(prims, SubSeq(sorted, 2, Len(sorted)))} :
                    sorted \in SortedOrders(prims, entities, axis)}
build_BVH(prims, entities) ==
    IF Len(entities) = 1
    THEN {LeafNode(entities[1], Get3DAABB(prims[entities[1]]))}
    ELSE IF Len(entities) = 2
    THEN {InternalNode(l, r) : l \in build_BVH(prims, <<entities[1]>>), r \in build_BVH(prims, <<entities[2]>>)}
    ELSE LET axis == longest_axis(AABB_of_all_centroids(prims, entities, Len(entities)))
             median == Len(entities) \div 2
         IN  UNION {{InternalNode(l, r) :
                        l \in build_BVH(prims, SubSeq(sorted, 1, median)),
                        r \in build_BVH(prims, SubSeq(sorted, median + 1, Len(sorted)))} :
                    sorted \in SortedOrders(prims, entities, axis)}

\* BVH::BVH: the roots the constructor may leave for the primitives
BVH_roots(prims) ==
    IF prims = <<>> THEN {NullNode}
    ELSE build_BVH(prims, [i \in 1..Len(prims) |-> i])

\* BVH::traverse_BVH_from_node and Entity::GetIntersectionRecord; base is the
\* address of the mesh that owns the BVH (empty for the scene's BVH)
\* the part of the two children's records traverse_BVH_from_node returns
nearer_part_left_first(left_part, right_part) ==
    IF left_part.has_intersection THEN left_part ELSE right_part
nearer_part(left_part, right_part) ==
    IF FLt(left_part.t, right_part.t) THEN left_part ELSE right_part

RECURSIVE traverse_BVH_from_node(_, _, _, _)
RECURSIVE GetIntersectionRecord(_, _, _)
traverse_BVH_from_node(prims, base, node, r) ==
    IF ~intersects_with_ray(node.bounding_volume, r, r.direction_reciprocal, direction_is_negative(r))
    THEN IntersectionRecord
    ELSE IF node.left = NullNode /\ node.right = NullNode
    THEN GetIntersectionRecord(prims[node.entity], base \o <<node.entity>>, r)
    ELSE nearer_part(traverse_BVH_from_node(prims, base, node.left, r),
                     traverse_BVH_from_node(prims, base, node.right, r))

\* BVH::traverse_BVH_from_root
traverse_BVH_from_root(prims, base, rt, r) ==
    IF rt = NullNode THEN IntersectionRecord
    ELSE traverse_BVH_from_node(prims, base, rt, r)

GetIntersectionRecord(e, self, r) ==
    IF e.kind = "TrianglePrimitive" THEN Triangle_GetIntersectionRecord(e, self, r)
    ELSE IF e.kind = "Sphere" THEN Sphere_GetIntersectionRecord(e, self, r)
    ELSE traverse_BVH_from_root(e.triangle_primitives, self, e.bvh, r)

\* TriangleMesh::TriangleMesh: the bounding box is the range of the vertices,
\* starting from (+inf, -inf), and the mesh owns a BVH over its triangles
RECURSIVE mesh_range(_, _)
mesh_range(tris, i) ==
    IF i = 0 THEN [lo |-> mesh_range_min_init, hi |-> mesh_range_max_init]
    ELSE LET prev == mesh_range(tris, i - 1)
             vs == <<tris[i].vertice_a, tris[i].vertice_b, tris[i].vertice_c>>
             lo3(acc, v) == <<std_min(acc[1], v[1]), std_min(acc[2], v[2]), std_min(acc[3], v[3])>>
             hi3(acc, v) == <<std_max(acc[1], v[1]), std_max(acc[2], v[2]), std_max(acc[3], v[3])>>
         IN  [lo |-> lo3(lo3(lo3(prev.lo, vs[1]), vs[2]), vs[3]),
              hi |-> hi3(hi3(hi3(prev.hi, vs[1]), vs[2]), vs[3])]
TriangleMesh(tris, tree) ==
    [kind |-> "TriangleMesh", triangle_primitives |-> tris,
     bounding_AABB |-> AABB_3D_diagonal(mesh_range(tris, Len(tris)).lo, mesh_range(tris, Len(tris)).hi),
     bvh |-> tree]
TriangleMeshes(tris) == {TriangleMesh(tris, tree) : tree \in BVH_roots(tris)}

\* Entity::Intersect of the linear scan: intersect is the returned bool and
\* closerT the out-parameter.  A sphere is intersected as in
\* Sphere::GetIntersectionRecord; a mesh by a loop over its triangles that keeps
\* the first of the hits with the smallest t; a single triangle likewise.
closer_triangle(so_far, res) ==
    IF res.hit /\ FLt(res.t_intersection, so_far.closerT)
    THEN [intersect |-> TRUE, closerT |-> res.t_intersection]
    ELSE so_far
RECURSIVE MeshTriangle_Intersect(_, _, _)
MeshTriangle_Intersect(tris, r, index) ==
    IF index = 0 THEN [intersect |-> FALSE, closerT |-> PosInf]
    ELSE closer_triangle(MeshTriangle_Intersect(tris, r, index - 1),
                         RayTriangleIntersection(tris[index].vertice_a, tris[index].vertice_b,
                                                 tris[index].vertice_c, r.m_origin, r.m_direction))
Sphere_Intersect_result(rec) == [intersect |-> rec.has_intersection, closerT |-> rec.t]
Sphere_Intersect(e, r) == Sphere_Intersect_result(Sphere_GetIntersectionRecord(e, nullptr, r))
Intersect(e, r) ==
    IF e.kind = "TrianglePrimitive" THEN MeshTriangle_Intersect(<<e>>, r, 1)
    ELSE IF e.kind = "Sphere" THEN Sphere_Intersect(e, r)
    ELSE MeshTriangle_Intersect(e.triangle_primitives, r, Len(e.triangle_primitives))

\* Whitted::get_intersection_payload: the linear scan over the entities, which
\* keeps the first of the hits with the smallest t
closer_payload(payload_so_far, local, i) ==
    IF local.intersect /\ FLt(local.closerT, payload_so_far.t)
    THEN [has_value |-> TRUE, t |-> local.closerT, entity_hitted |-> <<i>>]
    ELSE payload_so_far
RECURSIVE get_intersection_payload(_, _, _)
get_intersection_payload(r, entities, i) ==
    IF i = 0 THEN [has_value |-> FALSE, t |-> PosInf, entity_hitted |-> nullptr]
    ELSE closer_payload(get_intersection_payload(r, entities, i - 1), Intersect(entities[i], r), i)

(***************************************************************************)
(* Initial states of the other components (defined with them below).       *)
(***************************************************************************)
\* std::optional<Payload>{}: no intersection
NoPayload == [has_value |-> FALSE, t |-> PosInf, entity_hitted |-> nullptr]

BVHInit ==
    /\ bvh_op = "none"
    /\ m_primitives = <<>>
    /\ root = NullNode
    /\ ray = NoRay
    /\ record = IntersectionRecord
    /\ payload = NoPayload

\* G_Buffer::G_Buffer(): empty channel grids, identity matrices
(***************************************************************************)
(* The frame buffers and the temporal pass of the denoiser (Denoiser.h).   *)
(* A FrameBuffer is stored row by row; a glm::mat4 is given by its four    *)
(* rows; the channels of the G_Buffer the temporal pass does not read      *)
(* (surface normal, contributor) are left out.                             *)
(***************************************************************************)
EmptyFrameBuffer == [frame_width |-> 0, frame_height |-> 0, buffer |-> <<>>]

\* FrameBuffer::operator()(column, row)
At(fb, column, row) == fb.buffer[row * fb.frame_width + column + 1]

\* FrameBuffer::Reset: std::vector::resize keeps the leading elements and
\* value-initialises the new ones
Reset(fb, width, height, zero) ==
    [frame_width |-> width, frame_height |-> height,
     buffer |-> [k \in 1..(width * height) |-> IF k <= Len(fb.buffer) THEN fb.buffer[k] ELSE zero]]

\* glm::mat4{1.0f}
identity_matrix ==
    << <<One, Zero, Zero, Zero>>, <<Zero, One, Zero, Zero>>,
       <<Zero, Zero, One, Zero>>, <<Zero, Zero, Zero, One>> >>

G_Buffer ==
    [pixel_world_position |-> EmptyFrameBuffer, pixel_color |-> EmptyFrameBuffer,
     primitive_id |-> EmptyFrameBuffer,
     projection_matrix |-> identity_matrix, view_matrix |-> identity_matrix]

G_Buffer_Reset(g, width, height) ==
    [g EXCEPT !.pixel_world_position = Reset(@, width, height, ZeroVec),
              !.pixel_color = Reset(@, width, height, ZeroVec),
              !.primitive_id = Reset(@, width, height, 0)]

Temporal_FilterKernelHalfSize == 3
tolerance == One

Dot4(a, b) == FAdd(FAdd(FAdd(FMul(a[1], b[1]), FMul(a[2], b[2])), FMul(a[3], b[3])), FMul(a[4], b[4]))
\* glm::mat4 * glm::vec4
MatVec(M, v) == <<Dot4(M[1], v), Dot4(M[2], v), Dot4(M[3], v), Dot4(M[4], v)>>
\* glm::vec4{position, 1.0f}
Vec4(p) == <<p[1], p[2], p[3], One>>

canonical_position_4D(prev, world_position) ==
    MatVec(prev.projection_matrix, MatVec(prev.view_matrix, Vec4(world_position)))

\* perspective division, canonical square to screen, screen to pixels
pixel_position_of(c4, width, height) ==
    <<FMul(FDiv(FAdd(FDiv(c4[1], c4[4]), One), R(2)), R(width)),
      FMul(FDiv(FAdd(FDiv(c4[2], c4[4]), One), R(2)), R(height))>>

pixel_position(prev, g, width, height, x, y) ==
    pixel_position_of(canonical_position_4D(prev, At(g.pixel_world_position, x, y)), width, height)

inside_viewport_inclusive(pp, width, height) ==
    /\ FGt(pp[1], Zero) /\ FLe(pp[1], R(width))
    /\ FGt(pp[2], Zero) /\ FLe(pp[2], R(height))

\* the test of line 276 on the reprojected pixel position
inside_viewport(pp, width, height) ==
    /\ FGt(pp[1], Zero) /\ FLt(pp[1], R(width))
    /\ FGt(pp[2], Zero) /\ FLt(pp[2], R(height))

\* (int) of a non-negative finite float: truncation
int_cast(a) == a[1] \div a[2]

matches_previous(prev, id, pp) == id = At(prev.primitive_id, int_cast(pp[1]), int_cast(pp[2]))

takes_history_at_any_primitive(prev, id, pp, width, height) ==
    id # -1 /\ inside_viewport(pp, width, height)

\* the three nested conditions under which the previous frame contributes
takes_history_at(prev, id, pp, width, height) ==
    id # -1 /\ inside_viewport(pp, width, height) /\ matches_previous(prev, id, pp)

takes_history(g, prev, width, height, x, y) ==
    takes_history_at(prev, At(g.primitive_id, x, y), pixel_position(prev, g, width, height, x, y),
                     width, height)

std_max_int(a, b) == IF a < b THEN b ELSE a
std_min_int(a, b) == IF b < a THEN b ELSE a

\* the kernel's pixels in the order the two loops visit them
kernel_sequence(kernel_left, kernel_right, kernel_bottom, kernel_top) ==
    [k \in 1..((kernel_right - kernel_left + 1) * (kernel_top - kernel_bottom + 1)) |->
        <<kernel_left + (k - 1) \div (kernel_top - kernel_bottom + 1),
          kernel_bottom + ((k - 1) % (kernel_top - kernel_bottom + 1))>>]

KernelPixels(x, y, width, height) ==
    kernel_sequence(std_max_int(0, x - Temporal_FilterKernelHalfSize),
                    std_min_int(width - 1, x + Temporal_FilterKernelHalfSize),
                    std_max_int(0, y - Temporal_FilterKernelHalfSize),
                    std_min_int(height - 1, y + Temporal_FilterKernelHalfSize))

VSquare(v) == <<FMul(v[1], v[1]), FMul(v[2], v[2]), FMul(v[3], v[3])>>
VDiv(v, s) == <<FDiv(v[1], s), FDiv(v[2], s), FDiv(v[3], s)>>

RECURSIVE kernel_mean_sum(_, _, _)
kernel_mean_sum(color, cells, k) ==
    IF k = 0 THEN ZeroVec
    ELSE VAdd(kernel_mean_sum(color, cells, k - 1), At(color, cells[k][1], cells[k][2]))

RECURSIVE kernel_variance_sum(_, _, _, _)
kernel_variance_sum(color, center, cells, k) ==
    IF k = 0 THEN ZeroVec
    ELSE VAdd(kernel_variance_sum(color, center, cells, k - 1),
              VSquare(VSub(center, At(color, cells[k][1], cells[k][2]))))

kernel_mean(color, cells) == VDiv(kernel_mean_sum(color, cells, Len(cells)), R(Len(cells)))

\* what is under the square roots of lines 304-306
kernel_mean_square(color, center, cells) ==
    VDiv(kernel_variance_sum(color, center, cells, Len(cells)), R(Len(cells)))

sqrt_of_max(v) ==
    <<FSqrt(std_max(v[1], Zero)), FSqrt(std_max(v[2], Zero)), FSqrt(std_max(v[3], Zero))>>

\* the vector the code calls variance after lines 304-306
kernel_deviation(color, center, cells) == sqrt_of_max(kernel_mean_square(color, center, cells))

\* glm::clamp(x, minVal, maxVal) = min(max(x, minVal), maxVal)
glm_clamp(x, minVal, maxVal) == glm_min3(glm_max3(x, minVal), maxVal)

clamped_history(color_from_previous_frame_pixel, mean, variance) ==
    glm_clamp(color_from_previous_frame_pixel,
              VSub(mean, VScale(tolerance, variance)), VAdd(mean, VScale(tolerance, variance)))

history_color(g, prev, pp, cells, x, y) ==
    clamped_history(At(prev.pixel_color, int_cast(pp[1]), int_cast(pp[2])),
                    kernel_mean(g.pixel_color, cells),
                    kernel_deviation(g.pixel_color, At(g.pixel_color, x, y), cells))

blend(temporal_blending_factor, color_from_previous_frame_pixel, color) ==
    VAdd(VScale(FSub(One, temporal_blending_factor), color_from_previous_frame_pixel),
         VScale(temporal_blending_factor, color))

filtered_pixel_at(g, prev, weighting, width, height, x, y, pp) ==
    IF takes_history_at(prev, At(g.primitive_id, x, y), pp, width, height)
    THEN blend(weighting, history_color(g, prev, pp, KernelPixels(x, y, width, height), x, y),
               At(g.pixel_color, x, y))
    ELSE blend(One, ZeroVec, At(g.pixel_color, x, y))

filtered_pixel(g, prev, weighting, width, height, x, y) ==
    filtered_pixel_at(g, prev, weighting, width, height, x, y,
                      pixel_position(prev, g, width, height, x, y))

\* the loop over rows and columns writing filtered_frame_buffer(x, y)
filtered_pixels(g, prev, weighting, width, height, out) ==
    [out EXCEPT !.buffer = [k \in 1..(width * height) |->
        filtered_pixel(g, prev, weighting, width, height, (k - 1) % width, (k - 1) \div width)]]

\* what TemporalFiltering leaves behind, given what it finds on entry
TemporalFiltering_blended_stores_input(g, filtered) ==
    [filtered_frame_buffer |-> filtered,
     g_buffer |-> [g EXCEPT !.pixel_color = filtered],
     previous_frame_g_buffer |-> g,
     accessible_previous_frame |-> TRUE]

TemporalFiltering_blended(g, filtered) ==
    [filtered_frame_buffer |-> filtered,
     g_buffer |-> [g EXCEPT !.pixel_color = filtered],
     previous_frame_g_buffer |-> [g EXCEPT !.pixel_color = filtered],
     accessible_previous_frame |-> TRUE]

TemporalFiltering_ignores_flag(g, prev, using, accessible, weighting, width, height, out) ==
    IF ~using
    THEN [filtered_frame_buffer |-> g.pixel_color, g_buffer |-> g,
          previous_frame_g_buffer |-> prev, accessible_previous_frame |-> FALSE]
    ELSE IF Len(prev.pixel_color.buffer) = width * height
    THEN TemporalFiltering_blended(g, filtered_pixels(g, prev, weighting, width, height, out))
    ELSE [filtered_frame_buffer |-> g.pixel_color, g_buffer |-> g,
          previous_frame_g_buffer |-> g, accessible_previous_frame |-> TRUE]

TemporalFiltering(g, prev, using, accessible, weighting, width, height, out) ==
    IF ~using
    THEN [filtered_frame_buffer |-> g.pixel_color, g_buffer |-> g,
          previous_frame_g_buffer |-> prev, accessible_previous_frame |-> FALSE]
    ELSE IF accessible
    THEN TemporalFiltering_blended(g, filtered_pixels(g, prev, weighting, width, height, out))
    ELSE [filtered_frame_buffer |-> g.pixel_color, g_buffer |-> g,
          previous_frame_g_buffer |-> g, accessible_previous_frame |-> TRUE]

DenoiserInit ==
    /\ frame_width = 0
    /\ frame_height = 0
    /\ using_temporal_filtering = TRUE
    /\ current_frame_weighting = Q(1, 5)
    /\ accessible_previous_frame = FALSE
    /\ g_buffer = G_Buffer
    /\ previous_frame_g_buffer = G_Buffer
    /\ filtered_frame_buffer = EmptyFrameBuffer
    /\ dn_op = "Denoiser"
    /\ dn_entry = [using |-> TRUE, accessible |-> FALSE, weighting |-> Q(1, 5),
                   g_buffer |-> G_Buffer, previous |-> G_Buffer, restarted |-> FALSE]
    /\ frames = 0
    /\ restarted = FALSE

(***************************************************************************)
(* The renderer around the denoiser (Renderer.h, Renderer.cpp) and the     *)
(* control panel (mainloop.cpp).  Here a frame-sized buffer is kept as its *)
(* dimensions, its number of entries and the pass that last wrote it.      *)
(***************************************************************************)
Settings ==
    [immediate_clamping |-> TRUE,
     disable_JointBilateralFiltering |-> TRUE,
     using_JointBilateralFiltering_15 |-> FALSE,
     using_JointBilateralFiltering_33 |-> FALSE,
     using_JointBilateralFiltering_65 |-> FALSE,
     disable_TemporalFiltering |-> TRUE,
     using_temporal_kernel_7 |-> FALSE,
     using_temporal_kernel_15 |-> FALSE,
     using_temporal_kernel_33 |-> FALSE,
     using_temporal_variance_tolerance_1 |-> FALSE,
     using_temporal_variance_tolerance_2 |-> FALSE,
     using_temporal_variance_tolerance_3 |-> FALSE,
     using_temporal_current_frame_weighting_10 |-> FALSE,
     using_temporal_current_frame_weighting_5 |-> FALSE,
     using_temporal_current_frame_weighting_20 |-> FALSE,
     using_temporal_current_frame_weighting_50 |-> FALSE]

\* the data members of a default-constructed Denoiser
Denoiser ==
    [using_JBF_filtering |-> TRUE,
     JBF_FilterKernelHalfSize |-> 7,
     using_temporal_filtering |-> TRUE,
     Temporal_FilterKernelHalfSize |-> Temporal_FilterKernelHalfSize,
     tolerance |-> tolerance,
     current_frame_weighting |-> Q(1, 5),
     accessible_previous_frame |-> FALSE,
     frame_height |-> 0,
     frame_width |-> 0]

Resize_keeps_flag(d, width, height) ==
    [d EXCEPT !.frame_height = height, !.frame_width = width]

\* Denoiser::Resize
Resize(d, width, height) ==
    [d EXCEPT !.accessible_previous_frame = FALSE, !.frame_height = height, !.frame_width = width]

\* Render, lines 110-140: the spatial filter's settings
Render_JBF_settings(s, d) ==
    IF s.disable_JointBilateralFiltering
    THEN [settings |-> [s EXCEPT !.using_JointBilateralFiltering_15 = FALSE,
                                 !.using_JointBilateralFiltering_33 = FALSE,
                                 !.using_JointBilateralFiltering_65 = FALSE],
          denoiser |-> [d EXCEPT !.using_JBF_filtering = FALSE]]
    ELSE IF s.using_JointBilateralFiltering_15
    THEN [settings |-> [s EXCEPT !.using_JointBilateralFiltering_33 = FALSE,
                                 !.using_JointBilateralFiltering_65 = FALSE],
          denoiser |-> [d EXCEPT !.using_JBF_filtering = TRUE, !.JBF_FilterKernelHalfSize = 3]]
    ELSE IF s.using_JointBilateralFiltering_33
    THEN [settings |-> [s EXCEPT !.using_JointBilateralFiltering_15 = FALSE,
                                 !.using_JointBilateralFiltering_65 = FALSE],
          denoiser |-> [d EXCEPT !.using_JBF_filtering = TRUE, !.JBF_FilterKernelHalfSize = 16]]
    ELSE IF s.using_JointBilateralFiltering_65
    THEN [settings |-> [s EXCEPT !.using_JointBilateralFiltering_15 = FALSE,
                                 !.using_JointBilateralFiltering_33 = FALSE],
          denoiser |-> [d EXCEPT !.using_JBF_filtering = TRUE, !.JBF_FilterKernelHalfSize = 32]]
    ELSE [settings |-> s, denoiser |-> d]

\* Render, lines 142-157: temporal filtering disabled
Render_temporal_disabled(s, d) ==
    [settings |-> [s EXCEPT !.using_temporal_kernel_7 = FALSE,
                            !.using_temporal_kernel_15 = FALSE,
                            !.using_temporal_kernel_33 = FALSE,
                            !.using_temporal_variance_tolerance_1 = FALSE,
                            !.using_temporal_variance_tolerance_2 = FALSE,
                            !.using_temporal_variance_tolerance_3 = FALSE,
                            !.using_temporal_current_frame_weighting_10 = FALSE,
                            !.using_temporal_current_frame_weighting_5 = FALSE,
                            !.using_temporal_current_frame_weighting_20 = FALSE],
     denoiser |-> [d EXCEPT !.using_temporal_filtering = FALSE]]

\* Render, lines 160-180: the temporal kernel size
Render_temporal_kernel(s, d) ==
    IF s.using_temporal_kernel_7
    THEN [settings |-> [s EXCEPT !.using_temporal_kernel_15 = FALSE, !.using_temporal_kernel_33 = FALSE],
          denoiser |-> [d EXCEPT !.using_temporal_filtering = TRUE, !.Temporal_FilterKernelHalfSize = 3]]
    ELSE IF s.using_temporal_kernel_15
    THEN [settings |-> [s EXCEPT !.using_temporal_kernel_7 = FALSE, !.using_temporal_kernel_33 = FALSE],
          denoiser |-> [d EXCEPT !.using_temporal_filtering = TRUE, !.Temporal_FilterKernelHalfSize = 7]]
    ELSE IF s.using_temporal_kernel_33
    THEN [settings |-> [s EXCEPT !.using_temporal_kernel_15 = FALSE, !.using_temporal_kernel_7 = FALSE],
          denoiser |-> [d EXCEPT !.using_temporal_filtering = TRUE, !.Temporal_FilterKernelHalfSize = 16]]
    ELSE [settings |-> s, denoiser |-> d]

\* Render, lines 182-202: the variance tolerance
Render_temporal_tolerance(s, d) ==
    IF s.using_temporal_variance_tolerance_1
    THEN [settings |-> [s EXCEPT !.using_temporal_variance_tolerance_2 = FALSE,
                                 !.using_temporal_variance_tolerance_3 = FALSE],
          denoiser |-> [d EXCEPT !.using_temporal_filtering = TRUE, !.tolerance = R(1)]]
    ELSE IF s.using_temporal_variance_tolerance_2
    THEN [settings |-> [s EXCEPT !.using_temporal_variance_tolerance_1 = FALSE,
                                 !.using_temporal_variance_tolerance_3 = FALSE],
          denoiser |-> [d EXCEPT !.using_temporal_filtering = TRUE, !.tolerance = R(2)]]
    ELSE IF s.using_temporal_variance_tolerance_3
    THEN [settings |-> [s EXCEPT !.using_temporal_variance_tolerance_2 = FALSE,
                                 !.using_temporal_variance_tolerance_1 = FALSE],
          denoiser |-> [d EXCEPT !.using_temporal_filtering = TRUE, !.tolerance = R(3)]]
    ELSE [settings |-> s, denoiser |-> d]

\* Render, lines 204-235: the weight of the current frame
Render_temporal_weighting(s, d) ==
    IF s.using_temporal_current_frame_weighting_5
    THEN [settings |-> [s EXCEPT !.using_temporal_current_frame_weighting_10 = FALSE,
                                 !.using_temporal_current_frame_weighting_20 = FALSE,
                                 !.using_temporal_current_frame_weighting_50 = FALSE],
          denoiser |-> [d EXCEPT !.using_temporal_filtering = TRUE, !.current_frame_weighting = Q(1, 20)]]
    ELSE IF s.using_temporal_current_frame_weighting_10
    THEN [settings |-> [s EXCEPT !.using_temporal_current_frame_weighting_5 = FALSE,
                                 !.using_temporal_current_frame_weighting_20 = FALSE,
                                 !.using_temporal_current_frame_weighting_50 = FALSE],
          denoiser |-> [d EXCEPT !.using_temporal_filtering = TRUE, !.current_frame_weighting = Q(1, 10)]]
    ELSE IF s.using_temporal_current_frame_weighting_20
    THEN [settings |-> [s EXCEPT !.using_temporal_current_frame_weighting_10 = FALSE,
                                 !.using_temporal_current_frame_weighting_5 = FALSE,
                                 !.using_temporal_current_frame_weighting_50 = FALSE],
          denoiser |-> [d EXCEPT !.using_temporal_filtering = TRUE, !.current_frame_weighting = Q(1, 5)]]
    ELSE IF s.using_temporal_current_frame_weighting_50
    THEN [settings |-> [s EXCEPT !.using_temporal_current_frame_weighting_10 = FALSE,
                                 !.using_temporal_current_frame_weighting_20 = FALSE,
                                 !.using_temporal_current_frame_weighting_5 = FALSE],
          denoiser |-> [d EXCEPT !.using_temporal_filtering = TRUE, !.current_frame_weighting = Q(1, 2)]]
    ELSE [settings |-> s, denoiser |-> d]

Render_temporal_enabled_3(sd) == Render_temporal_weighting(sd.settings, sd.denoiser)
Render_temporal_enabled_2(sd) == Render_temporal_enabled_3(Render_temporal_tolerance(sd.settings, sd.denoiser))

\* Render, lines 142-236
Render_temporal_settings(s, d) ==
    IF s.disable_TemporalFiltering THEN Render_temporal_disabled(s, d)
    ELSE Render_temporal_enabled_2(Render_temporal_kernel(s, d))

Render_settings_2(sd) == Render_temporal_settings(sd.settings, sd.denoiser)
\* Render, lines 110-236: what the settings and the denoiser are when the passes start
Render_settings(s, d) == Render_settings_2(Render_JBF_settings(s, d))

\* the buttons of the control panel: each calls RestartTemporal and then
\* assigns these settings (mainloop.cpp, lines 104-234)
Buttons ==
    { [immediate_clamping |-> TRUE],
      [immediate_clamping |-> FALSE],
      [disable_JointBilateralFiltering |-> TRUE, using_JointBilateralFiltering_15 |-> FALSE,
       using_JointBilateralFiltering_33 |-> FALSE, using_JointBilateralFiltering_65 |-> FALSE],
      [disable_JointBilateralFiltering |-> FALSE, using_JointBilateralFiltering_15 |-> TRUE,
       using_JointBilateralFiltering_33 |-> FALSE, using_JointBilateralFiltering_65 |-> FALSE],
      [disable_JointBilateralFiltering |-> FALSE, using_JointBilateralFiltering_15 |-> FALSE,
       using_JointBilateralFiltering_33 |-> TRUE, using_JointBilateralFiltering_65 |-> FALSE],
      [disable_JointBilateralFiltering |-> FALSE, using_JointBilateralFiltering_15 |-> FALSE,
       using_JointBilateralFiltering_33 |-> FALSE, using_JointBilateralFiltering_65 |-> TRUE],
      [disable_TemporalFiltering |-> TRUE],
      [disable_TemporalFiltering |-> FALSE, using_temporal_kernel_7 |-> TRUE],
      [disable_TemporalFiltering |-> FALSE, using_temporal_kernel_7 |-> FALSE,
       using_temporal_kernel_15 |-> TRUE],
      [disable_TemporalFiltering |-> FALSE, using_temporal_kernel_7 |-> FALSE,
       using_temporal_kernel_15 |-> FALSE, using_temporal_kernel_33 |-> TRUE],
      [disable_TemporalFiltering |-> FALSE, using_temporal_variance_tolerance_1 |-> TRUE],
      [disable_TemporalFiltering |-> FALSE, using_temporal_variance_tolerance_1 |-> FALSE,
       using_temporal_variance_tolerance_2 |-> TRUE],
      [disable_TemporalFiltering |-> FALSE, using_temporal_variance_tolerance_1 |-> FALSE,
       using_temporal_variance_tolerance_2 |-> FALSE, using_temporal_variance_tolerance_3 |-> TRUE],
      [disable_TemporalFiltering |-> FALSE, using_temporal_current_frame_weighting_5 |-> TRUE],
      [disable_TemporalFiltering |-> FALSE, using_temporal_current_frame_weighting_5 |-> FALSE,
       using_temporal_current_frame_weighting_10 |-> TRUE],
      [disable_TemporalFiltering |-> FALSE, using_temporal_current_frame_weighting_5 |-> FALSE,
       using_temporal_current_frame_weighting_10 |-> FALSE,
       using_temporal_current_frame_weighting_20 |-> TRUE],
      [disable_TemporalFiltering |-> FALSE, using_temporal_current_frame_weighting_5 |-> FALSE,
       using_temporal_current_frame_weighting_10 |-> FALSE,
       using_temporal_current_frame_weighting_20 |-> FALSE,
       using_temporal_current_frame_weighting_50 |-> TRUE] }

\* the kernel sizes, in pixels, that the labels of the kernel-size buttons announce
KernelSizeLabels ==
    [using_JointBilateralFiltering_15 |-> 15, using_JointBilateralFiltering_33 |-> 33,
     using_JointBilateralFiltering_65 |-> 65,
     using_temporal_kernel_7 |-> 7, using_temporal_kernel_15 |-> 15, using_temporal_kernel_33 |-> 33]

JBF_options ==
    {"using_JointBilateralFiltering_15", "using_JointBilateralFiltering_33",
     "using_JointBilateralFiltering_65"}

temporal_options == {"using_temporal_kernel_7", "using_temporal_kernel_15", "using_temporal_kernel_33"}

\* the kernel size a button announces for one filter: 0 for the filter's
\* disabling button, the size chosen before for a button of another kind
Announced(button, options, disabling, before) ==
    IF \E f \in options : f \in DOMAIN button /\ button[f]
    THEN KernelSizeLabels[CHOOSE f \in options : f \in DOMAIN button /\ button[f]]
    ELSE IF disabling \in DOMAIN button /\ button[disabling] THEN 0
    ELSE before

\* the assignments of a button applied to the settings
Pressed(s, button) ==
    [f \in DOMAIN s |-> IF f \in DOMAIN button THEN button[f] ELSE s[f]]

\* a FrameBuffer<T> reduced to its dimensions, its length and its last writer
Grid == [frame_width |-> 0, frame_height |-> 0, size |-> 0, written_by |-> "nobody"]

\* FrameBuffer::Reset on such a buffer
Grid_Reset(grid, width, height) ==
    [grid EXCEPT !.frame_width = width, !.frame_height = height, !.size = width * height]

Channels ==
    {"pixel_world_position", "pixel_color", "pixel_world_surface_normal", "contributor", "primitive_id"}

\* G_Buffer::G_Buffer() on such buffers
Grids == [c \in Channels |-> Grid]

\* G_Buffer::Reset on such buffers
Grids_Reset(g, width, height) == [c \in Channels |-> Grid_Reset(g[c], width, height)]

\* the frame-sized data members of a Renderer and of its Denoiser
Buffers ==
    [g_buffer |-> Grids,
     spatial_filtered_frame_buffer |-> Grid,
     temporal_filtered_frame_buffer |-> Grid,
     previous_frame_g_buffer |-> Grids,
     frame_data |-> 0]

ResizeViewport_buffers_keeps_temporal(b, width, height) ==
    [b EXCEPT !.g_buffer = Grids_Reset(@, width, height),
              !.spatial_filtered_frame_buffer = Grid_Reset(@, width, height),
              !.frame_data = width * height]

\* ResizeViewport, lines 80-88
ResizeViewport_buffers(b, width, height) ==
    [b EXCEPT !.g_buffer = Grids_Reset(@, width, height),
              !.spatial_filtered_frame_buffer = Grid_Reset(@, width, height),
              !.temporal_filtered_frame_buffer = Grid_Reset(@, width, height),
              !.frame_data = width * height]

\* the shading pass: every pixel's RayGen_Shader writes the G-buffer
RayGen_pass(b) ==
    [b EXCEPT !.g_buffer = [c \in Channels |-> [@[c] EXCEPT !.written_by = "RayGen_Shader"]]]

\* Denoiser::JointBilateralFiltering on such buffers
JointBilateralFiltering_pass(d, b) ==
    IF ~d.using_JBF_filtering
    THEN [b EXCEPT !.spatial_filtered_frame_buffer = b.g_buffer.pixel_color]
    ELSE [b EXCEPT !.spatial_filtered_frame_buffer.written_by = "JointBilateralFiltering",
                   !.g_buffer.pixel_color =
                       [b.spatial_filtered_frame_buffer EXCEPT !.written_by = "JointBilateralFiltering"]]

\* Denoiser::TemporalFiltering on such buffers, lines 244-327
TemporalFiltering_enabled_pass(d, b) ==
    IF d.accessible_previous_frame
    THEN [b EXCEPT !.temporal_filtered_frame_buffer.written_by = "TemporalFiltering",
                   !.g_buffer.pixel_color =
                       [b.temporal_filtered_frame_buffer EXCEPT !.written_by = "TemporalFiltering"],
                   !.previous_frame_g_buffer =
                       [b.g_buffer EXCEPT !.pixel_color =
                           [b.temporal_filtered_frame_buffer EXCEPT !.written_by = "TemporalFiltering"]]]
    ELSE [b EXCEPT !.temporal_filtered_frame_buffer = b.g_buffer.pixel_color,
                   !.previous_frame_g_buffer = b.g_buffer]

\* Denoiser::TemporalFiltering on such buffers
TemporalFiltering_pass(d, b) ==
    IF ~d.using_temporal_filtering
    THEN [denoiser |-> [d EXCEPT !.accessible_previous_frame = FALSE],
          buffers |-> [b EXCEPT !.temporal_filtered_frame_buffer = b.g_buffer.pixel_color]]
    ELSE [denoiser |-> [d EXCEPT !.accessible_previous_frame = TRUE],
          buffers |-> TemporalFiltering_enabled_pass(d, b)]

\* Render, lines 238-254: the passes of a frame
Render_passes(d, b) == TemporalFiltering_pass(d, JointBilateralFiltering_pass(d, RayGen_pass(b)))

\* the extent of the kernel around (x, y) on each axis (Denoiser.h, lines 155-158 and 283-286)
kernel_extent(x, y, width, height, HalfSize) ==
    <<std_min_int(width - 1, x + HalfSize) - std_max_int(0, x - HalfSize) + 1,
      std_min_int(height - 1, y + HalfSize) - std_max_int(0, y - HalfSize) + 1>>

\* the bounds of the temporal kernel around (x, y) (Denoiser.h, lines 283-286)
kernel_bounds(x, y, width, height, HalfSize) ==
    [kernel_left |-> std_max_int(0, x - HalfSize), kernel_right |-> std_min_int(width - 1, x + HalfSize),
     kernel_bottom |-> std_max_int(0, y - HalfSize), kernel_top |-> std_min_int(height - 1, y + HalfSize)]

\* the position in FrameBuffer::buffer that operator()(column, row) accesses
buffer_index(grid, column, row) == row * grid.frame_width + column

NoFrame == [accessible_on_entry |-> FALSE, invalidated |-> FALSE, was_enabled |-> TRUE, enabled |-> TRUE]

RendererInit ==
    /\ settings = Settings
    /\ denoiser = Denoiser
    /\ frame_image_final = <<>>
    /\ buffers = Buffers
    /\ rn_op = "Renderer"
    /\ invalidated = FALSE
    /\ chosen = [JBF |-> 0, temporal |-> 0]
    /\ last_frame = NoFrame

(***************************************************************************)
(* The parallel loops of Renderer::Render (Renderer.cpp) and of the two    *)
(* denoiser passes (Denoiser.h), one worker per pixel.  Buffer entries are *)
(* terms that record which computation produced them from which entries:   *)
(* the arithmetic of shading and of the filter weights is not evaluated.   *)
(***************************************************************************)
rows == 0..1
columns == 0..1
Workers == columns \X rows

Loops == {"RayGen_Shader", "JointBilateralFiltering", "TemporalFiltering", "packing"}

\* a value-initialised entry
Cleared == [by |-> "Reset"]

Channel(v) == [p \in Workers |-> v]

\* G_Buffer after Reset(width, height)
FrameG ==
    [pixel_world_position |-> Channel(Cleared),
     pixel_color |-> Channel(Cleared),
     pixel_world_surface_normal |-> Channel(Cleared),
     contributor |-> Channel(0),
     primitive_id |-> Channel(0),
     projection_matrix |-> "identity",
     view_matrix |-> "identity"]

\* the frame-sized buffers of Renderer and Denoiser after ResizeViewport
FrameBuffers ==
    [g_buffer |-> FrameG,
     spatial_filtered_frame_buffer |-> Channel(Cleared),
     temporal_filtered_frame_buffer |-> Channel(Cleared),
     frame_data |-> Channel(Cleared),
     previous_frame_g_buffer |-> FrameG]

Reads(worker, buffer, pixels) ==
    {[worker |-> worker, access |-> "read", buffer |-> buffer, pixel |-> q] : q \in pixels}

Writes(worker, buffer, pixels) ==
    {[worker |-> worker, access |-> "write", buffer |-> buffer, pixel |-> q] : q \in pixels}

\* Renderer::cast_path: the G-buffer entries of a hit and of a miss
cast_path(g, p, id, frame) ==
    IF id # -1
    THEN [g EXCEPT !.primitive_id[p] = id,
                   !.contributor[p] = 1,
                   !.pixel_world_position[p] = [by |-> "record.location", frame |-> frame, pixel |-> p],
                   !.pixel_world_surface_normal[p] = [by |-> "shading_point_normal", frame |-> frame, pixel |-> p]]
    ELSE [g EXCEPT !.primitive_id[p] = -1, !.contributor[p] = 0]

\* the colour cast_path returns: a shaded sample, or the colour of the night sky
cast_path_color(p, id, frame) ==
    IF id # -1 THEN [by |-> "shading", frame |-> frame, pixel |-> p] ELSE [by |-> "sky"]

\* Renderer::RayGen_Shader(x, y)
RayGen_Shader(g, p, id, frame) ==
    [cast_path(g, p, id, frame) EXCEPT !.pixel_color[p] = cast_path_color(p, id, frame)]

RayGen_Shader_accesses(p, id) ==
    Writes(p, "g_buffer.primitive_id", {p}) \cup Writes(p, "g_buffer.contributor", {p})
    \cup Writes(p, "g_buffer.pixel_color", {p})
    \cup (IF id # -1
          THEN Writes(p, "g_buffer.pixel_world_position", {p})
               \cup Writes(p, "g_buffer.pixel_world_surface_normal", {p})
          ELSE {})

\* the pixels between kernel_left..kernel_right and kernel_bottom..kernel_top
kernel_window(p, HalfSize) ==
    {q \in Workers :
        /\ std_max_int(0, p[1] - HalfSize) <= q[1]
        /\ q[1] <= std_min_int(Cardinality(columns) - 1, p[1] + HalfSize)
        /\ std_max_int(0, p[2] - HalfSize) <= q[2]
        /\ q[2] <= std_min_int(Cardinality(rows) - 1, p[2] + HalfSize)}

\* the kernel pixels the spatial loop does not skip
JBF_contributing(g, kernel) == {q \in kernel : g.contributor[q] # 0}

\* what the spatial filter's worker for pixel p writes to filtered_frame_buffer(p)
JointBilateralFiltering_pixel(g, p, HalfSize) ==
    IF g.contributor[p] = 0
    THEN g.pixel_color[p]
    ELSE [by |-> "JointBilateralFiltering",
          kernel_center_color |-> g.pixel_color[p],
          kernel |-> [q \in JBF_contributing(g, kernel_window(p, HalfSize)) |->
                        [kernel_pixel_color |-> g.pixel_color[q],
                         kernel_pixel_world_position |-> g.pixel_world_position[q],
                         kernel_pixel_world_surface_normal |-> g.pixel_world_surface_normal[q]]]]

JointBilateralFiltering_reads(g, p, kernel) ==
    IF g.contributor[p] = 0
    THEN Reads(p, "g_buffer.contributor", {p}) \cup Reads(p, "g_buffer.pixel_color", {p})
    ELSE Reads(p, "g_buffer.contributor", {p} \cup kernel)
         \cup Reads(p, "g_buffer.pixel_color", {p} \cup JBF_contributing(g, kernel))
         \cup Reads(p, "g_buffer.pixel_world_position", {p} \cup JBF_contributing(g, kernel))
         \cup Reads(p, "g_buffer.pixel_world_surface_normal", {p} \cup JBF_contributing(g, kernel))

JointBilateralFiltering_accesses(g, p, HalfSize) ==
    JointBilateralFiltering_reads(g, p, kernel_window(p, HalfSize))
    \cup Writes(p, "spatial_filtered_frame_buffer", {p})

\* the previous frame's pixel under the reprojected position: the camera either
\* stands still or has panned by one column between the two frames
reprojected(previous_camera, camera, p) ==
    IF previous_camera = camera THEN p
    ELSE IF camera = "panned" THEN <<p[1] + 1, p[2]>> ELSE <<p[1] - 1, p[2]>>

temporal_takes_history(g, prev, p, q) ==
    /\ g.primitive_id[p] # -1
    /\ q \in Workers
    /\ prev.primitive_id[q] = g.primitive_id[p]

\* what the temporal filter's worker for pixel p writes to filtered_frame_buffer(p)
TemporalFiltering_pixel_at(g, prev, p, q) ==
    IF temporal_takes_history(g, prev, p, q)
    THEN [by |-> "TemporalFiltering",
          color |-> g.pixel_color[p],
          color_from_previous_frame_pixel |-> prev.pixel_color[q],
          window |-> [k \in kernel_window(p, Temporal_FilterKernelHalfSize) |-> g.pixel_color[k]]]
    ELSE g.pixel_color[p]

TemporalFiltering_pixel(g, prev, p) ==
    TemporalFiltering_pixel_at(g, prev, p, reprojected(prev.view_matrix, g.view_matrix, p))

TemporalFiltering_reads_at(g, prev, p, q) ==
    Reads(p, "g_buffer.primitive_id", {p}) \cup Reads(p, "g_buffer.pixel_color", {p})
    \cup (IF g.primitive_id[p] # -1
          THEN Reads(p, "g_buffer.pixel_world_position", {p}) ELSE {})
    \cup (IF g.primitive_id[p] # -1 /\ q \in Workers
          THEN Reads(p, "previous_frame_g_buffer.primitive_id", {q}) ELSE {})
    \cup (IF temporal_takes_history(g, prev, p, q)
          THEN Reads(p, "previous_frame_g_buffer.pixel_color", {q})
               \cup Reads(p, "g_buffer.pixel_color", kernel_window(p, Temporal_FilterKernelHalfSize))
          ELSE {})

TemporalFiltering_accesses(g, prev, p) ==
    TemporalFiltering_reads_at(g, prev, p, reprojected(prev.view_matrix, g.view_matrix, p))
    \cup Writes(p, "temporal_filtered_frame_buffer", {p})

\* the worker of the last loop of Render: clamp and pack one pixel
packing_pixel(temporal_filtered_frame_buffer, p) ==
    [by |-> "vecRGBA_to_0xABGR", final_color_RGBA |-> temporal_filtered_frame_buffer[p]]

packing_accesses(p) ==
    Reads(p, "temporal_filtered_frame_buffer", {p}) \cup Writes(p, "frame_data", {p})

JointBilateralFiltering_entered_without_copy(fb, using_JBF_filtering) == fb

\* JointBilateralFiltering up to its loop: the disabled filter copies the colours
JointBilateralFiltering_entered(fb, using_JBF_filtering) ==
    IF using_JBF_filtering THEN fb
    ELSE [fb EXCEPT !.spatial_filtered_frame_buffer = fb.g_buffer.pixel_color]

\* JointBilateralFiltering after its loop, and the camera matrices Render stores
JointBilateralFiltering_left(fb, using_JBF_filtering, camera) ==
    [fb EXCEPT !.g_buffer.pixel_color = IF using_JBF_filtering
                                         THEN fb.spatial_filtered_frame_buffer
                                         ELSE fb.g_buffer.pixel_color,
               !.g_buffer.projection_matrix = camera,
               !.g_buffer.view_matrix = camera]

\* TemporalFiltering up to its loop: without filtering or history it copies the colours
TemporalFiltering_entered(fb, blending) ==
    IF blending THEN fb
    ELSE [fb EXCEPT !.temporal_filtered_frame_buffer = fb.g_buffer.pixel_color]

TemporalFiltering_stored(g, filtered, blending) ==
    [g EXCEPT !.pixel_color = IF blending THEN filtered ELSE g.pixel_color]

\* TemporalFiltering after its loop
TemporalFiltering_left(fb, using, accessible) ==
    IF ~using THEN fb
    ELSE [fb EXCEPT !.g_buffer = TemporalFiltering_stored(fb.g_buffer, fb.temporal_filtered_frame_buffer,
                                                          accessible),
                    !.previous_frame_g_buffer =
                        TemporalFiltering_stored(fb.g_buffer, fb.temporal_filtered_frame_buffer,
                                                 accessible)]

(***************************************************************************)
(* RTUtility::vecRGBA_to_0xABGR and the packing of a pixel (Renderer.cpp). *)
(***************************************************************************)
\* glm::clamp on glm::vec4
glm_clamp4(x, minVal, maxVal) ==
    [i \in 1..4 |-> glm_min(glm_max(x[i], minVal[i]), maxVal[i])]

\* the conversion has a defined result when the truncated value fits uint8_t
uint8_t_defined(a) == IsFinite(a) /\ FLt(R(-1), a) /\ FLt(a, R(256))

\* (uint8_t)(float): truncation towards zero; undefined for other values
uint8_t_cast(a, undefined_byte) ==
    IF ~uint8_t_defined(a) THEN undefined_byte
    ELSE IF a[1] >= 0 THEN a[1] \div a[2] ELSE 0

\* a uint8_t promoted to a 32-bit word: the sequence of its bits, bit 0 first
Promoted(v) == [i \in 1..32 |-> IF i <= 8 THEN (v \div (2 ^ (i - 1))) % 2 ELSE 0]

\* x << n and x | y on 32-bit words
ShiftLeft(x, n) == [i \in 1..32 |-> IF i > n THEN x[i - n] ELSE 0]

BitOr(x, y) == [i \in 1..32 |-> IF x[i] = 1 \/ y[i] = 1 THEN 1 ELSE 0]

vecRGBA_to_0xABGR_word(r, g, b, a) ==
    BitOr(BitOr(BitOr(ShiftLeft(Promoted(a), 24), ShiftLeft(Promoted(b), 16)),
                ShiftLeft(Promoted(g), 8)),
          Promoted(r))

vecRGBA_to_0xABGR_unshifted(colorRGBA, undefined) ==
    LET r == uint8_t_cast(FMul(colorRGBA[1], R(255)), undefined[1])
        g == uint8_t_cast(FMul(colorRGBA[2], R(255)), undefined[2])
        b == uint8_t_cast(FMul(colorRGBA[3], R(255)), undefined[3])
        a == uint8_t_cast(FMul(colorRGBA[4], R(255)), undefined[4])
    IN  BitOr(BitOr(BitOr(Promoted(a), Promoted(b)), Promoted(g)), Promoted(r))

\* RTUtility::vecRGBA_to_0xABGR
vecRGBA_to_0xABGR(colorRGBA, undefined) ==
    vecRGBA_to_0xABGR_word(uint8_t_cast(FMul(colorRGBA[1], R(255)), undefined[1]),
                           uint8_t_cast(FMul(colorRGBA[2], R(255)), undefined[2]),
                           uint8_t_cast(FMul(colorRGBA[3], R(255)), undefined[3]),
                           uint8_t_cast(FMul(colorRGBA[4], R(255)), undefined[4]))

\* Render, lines 262-263: the colour with alpha 1, clamped
final_color_RGBA(color) ==
    glm_clamp4(<<color[1], color[2], color[3], One>>, <<Zero, Zero, Zero, Zero>>,
               <<One, One, One, One>>)

\* Render, lines 262-264: the word written for a pixel of that colour
packed_pixel(color, undefined) == vecRGBA_to_0xABGR(final_color_RGBA(color), undefined)

PackingInit ==
    /\ filtered_color = ZeroVec
    /\ frame_data_entry = Promoted(0)
    /\ undefined_bytes = <<0, 0, 0, 0>>
    /\ pk_op = "ResizeViewport"

\* no colour: the evaluation of the camera ray has not returned
NoRadiance == <<>>

IntegratorInit ==
    /\ call_stack = <<>>
    /\ radiance = NoRadiance
    /\ traversals = {}
    /\ outer_calls = FALSE
    /\ it_op = "none"

NoSight == [hits |-> Channel(-1), camera |-> "identity"]

WorkersInit ==
    /\ pass = "idle"
    /\ done = [l \in Loops |-> {}]
    /\ frame_buffers = FrameBuffers
    /\ switches = [using_JBF_filtering |-> TRUE, JBF_FilterKernelHalfSize |-> 7,
                   using_temporal_filtering |-> TRUE, accessible_previous_frame |-> FALSE]
    /\ sight = NoSight
    /\ accesses = {}
    /\ at_entry = FrameBuffers
    /\ renders = 0

(***************************************************************************)
(* Specification of the bounding-box operations.                           *)
(***************************************************************************)
InitAABB == AABBInit /\ BVHInit /\ DenoiserInit /\ RendererInit /\ WorkersInit /\ PackingInit
    /\ IntegratorInit
SpecAABB == InitAABB /\ [][AABBNext]_vars

(***************************************************************************)
(* Claims about the bounding box.                                          *)
(***************************************************************************)
\* min <= max on each axis
WellFormed(b) == \A i \in 1..3 : FLe(b.min_slab_values[i], b.max_slab_values[i])
NoZeroComponent(r) == \A i \in 1..3 : r.m_direction[i] # Zero

\* the parameters at which the ray crosses one of the six slab planes, and 0
CrossingParameters(b, r) ==
    {Zero} \cup {FDiv(FSub(b.min_slab_values[i], r.m_origin[i]), r.m_direction[i]) : i \in 1..3}
           \cup {FDiv(FSub(b.max_slab_values[i], r.m_origin[i]), r.m_direction[i]) : i \in 1..3}
\* some t >= 0 places origin + t * direction inside the box: the set of such t is
\* a closed interval whose least element is 0 or a crossing parameter
HitsAnalytically(b, r) ==
    \E t \in CrossingParameters(b, r) :
        IsFinite(t) /\ FGe(t, Zero) /\ contains_point(b, RayAt(r, t))

\* C5: for a box with min <= max on each axis and a ray whose direction has no
\* zero component, intersects_with_ray is true exactly when some t >= 0 places
\* origin + t * direction inside the box; a ray that starts inside the box is
\* always reported as intersecting.
C5_SlabTestAgreesWithGeometry ==
    (aabb_op = "intersects_with_ray" /\ WellFormed(this_box) /\ NoZeroComponent(arg_ray))
        => /\ ret_bool = HitsAnalytically(this_box, arg_ray)
           /\ contains_point(this_box, arg_ray.m_origin) => ret_bool

C5_Witness ==
    /\ aabb_op = "intersects_with_ray"
    /\ WellFormed(this_box)
    /\ NoZeroComponent(arg_ray)
    /\ arg_ray.m_direction[1] = R(-1)
    /\ ~contains_point(this_box, arg_ray.m_origin)
    /\ IsFinite(this_box.min_slab_values[1])
    /\ ret_bool

GeometryPoints == GridPoints \cup RayOrigins

\* C6: Union_with_3D_AABB(A, B) contains every point of A and of B, is commutative
\* and associative, and returns A when B is the empty box; Union_with_point never
\* shrinks the box (and the result contains the point).
C6_UnionIsMonotoneCommutativeAssociative ==
    /\ aabb_op = "Union_with_3D_AABB" =>
          /\ \A p \in GeometryPoints :
                (contains_point(this_box, p) \/ contains_point(arg_box, p)) => contains_point(ret_box, p)
          /\ ret_box = Union_with_3D_AABB(arg_box, this_box)
          /\ \A c \in ArgBoxes :
                Union_with_3D_AABB(ret_box, c) = Union_with_3D_AABB(this_box, Union_with_3D_AABB(arg_box, c))
          /\ arg_box = AABB_3D => ret_box = this_box
    /\ aabb_op = "Union_with_point" =>
          /\ \A p \in GeometryPoints : contains_point(this_box, p) => contains_point(ret_box, p)
          /\ contains_point(ret_box, arg_point)

C6_Witness ==
    /\ aabb_op = "Union_with_3D_AABB"
    /\ this_box # AABB_3D
    /\ arg_box # AABB_3D
    /\ ret_box # this_box
    /\ ret_box # arg_box

\* C7 as claimed: the empty box fails contains_point for every point, fails
\* intersects_with_ray for every ray and fails intersects_with_3D_AABB against
\* every box that is not itself an empty box.
C7_Original ==
    this_box = AABB_3D =>
        /\ aabb_op = "contains_point" => ~ret_bool
        /\ aabb_op = "intersects_with_ray" => ~ret_bool
        /\ (aabb_op = "intersects_with_3D_AABB" /\ arg_box # AABB_3D) => ~ret_bool

\* C7 as amended: the empty box fails contains_point for every point and
\* intersects_with_ray for every ray; it fails intersects_with_3D_AABB against
\* every box, itself included, except the box of everything (min = -infinity,
\* max = +infinity on every axis), against which it succeeds.
C7_EmptyBoxFailsAllButBoxOfEverything ==
    this_box = AABB_3D =>
        /\ aabb_op = "contains_point" => ~ret_bool
        /\ aabb_op = "intersects_with_ray" => ~ret_bool
        /\ aabb_op = "intersects_with_3D_AABB" => (ret_bool <=> arg_box = BoxOfEverything)

C7_Witness ==
    /\ this_box = AABB_3D
    /\ aabb_op = "intersects_with_3D_AABB"
    /\ arg_box = BoxOfEverything
    /\ ret_bool

Extent(b, axis) == diagonal_vector(b)[axis + 1]
Axes == {X_axis, Y_axis, Z_axis}
LargestAxes(b) == {a \in Axes : \A o \in Axes : FGe(Extent(b, a), Extent(b, o))}

\* C8 as claimed: longest_axis returns an axis of largest extent, and on a tie
\* the first of the tied axes in the order X, Y, Z.
C8_Original ==
    aabb_op = "longest_axis" =>
        /\ ret_axis \in LargestAxes(this_box)
        /\ \A a \in LargestAxes(this_box) : ret_axis <= a

\* C8 as amended: longest_axis returns an axis of largest extent, and on a tie
\* the last of the tied axes in the order X, Y, Z.
C8_LongestAxisTiesGoToLastAxis ==
    aabb_op = "longest_axis" =>
        /\ ret_axis \in LargestAxes(this_box)
        /\ \A a \in LargestAxes(this_box) : ret_axis >= a

C8_Witness ==
    /\ aabb_op = "longest_axis"
    /\ LargestAxes(this_box) = {X_axis, Y_axis}
    /\ ret_axis = Y_axis


(***************************************************************************)
(* Scenes and rays for the BVH.                                            *)
(*                                                                         *)
(* The unit square in the plane z = 0 as a mesh of two triangles with its  *)
(* own BVH, the half of the square on the other diagonal as a triangle of  *)
(* the scene, a larger triangle in the plane z = 1 that hides most of the  *)
(* square from above, a sphere whose box has the face x = 1/2, and the     *)
(* mesh of no triangles.                                                   *)
(***************************************************************************)
MaxPrims == 3

v_0 == VecI(0, 0, 0)
v_1 == VecI(1, 0, 0)
v_2 == VecI(1, 1, 0)
v_3 == VecI(0, 1, 0)
UnitSquare == <<TrianglePrimitive(v_0, v_1, v_3), TrianglePrimitive(v_1, v_2, v_3)>>
HalfSquare == TrianglePrimitive(v_0, v_1, v_2)
Occluder == TrianglePrimitive(VecI(0, 0, 1), VecI(2, 0, 1), VecI(0, 2, 1))
Ball == Sphere(Vec(Q(3, 2), Q(1, 2), Zero), One)

EntityCatalogue ==
    {HalfSquare, Occluder, Ball} \cup TriangleMeshes(UnitSquare) \cup TriangleMeshes(<<>>)

Scenes == UNION {[1..n -> EntityCatalogue] : n \in 0..MaxPrims}

\* rays from three origins towards two points of the square: its centre, and a
\* point inside both HalfSquare and the first triangle of UnitSquare
SceneOrigins == {Vec(Q(1, 2), Q(1, 2), R(2)), VecI(0, 1, 2), VecI(1, 0, -1)}
SceneTargets == {Vec(Q(1, 2), Q(1, 2), Zero), Vec(Q(1, 2), Q(1, 4), Zero)}
SceneRays == {Ray(o, VSub(p, o)) : o \in SceneOrigins, p \in SceneTargets}

\* std::sqrt is modelled exactly: a ray is handed to a scene only if the square
\* roots its spheres take are of squares of rationals
SqrtIsExact(prims, r) ==
    \A i \in 1..Len(prims) :
        prims[i].kind = "Sphere" =>
            \/ FLt(SphereDiscriminant(prims[i], r), Zero)
            \/ IsExactSquare(SphereDiscriminant(prims[i], r))

(***************************************************************************)
(* Actions of the BVH.                                                     *)
(***************************************************************************)
\* BVH::BVH(primitives)
Call_BVH ==
    /\ bvh_op = "none"
    /\ \E prims \in Scenes : \E tree \in BVH_roots(prims) :
        /\ m_primitives' = prims
        /\ root' = tree
    /\ bvh_op' = "BVH"
    /\ UNCHANGED <<ray, record, payload, aabb_vars, dn_vars, rn_vars, wk_vars, pk_vars, it_vars>>

\* BVH::traverse_BVH_from_root(ray)
Call_traverse_BVH_from_root ==
    /\ bvh_op = "BVH"
    /\ \E r \in SceneRays :
        /\ SqrtIsExact(m_primitives, r)
        /\ ray' = r
        /\ record' = traverse_BVH_from_root(m_primitives, <<>>, root, r)
    /\ bvh_op' = "traverse_BVH_from_root"
    /\ UNCHANGED <<m_primitives, root, payload, aabb_vars, dn_vars, rn_vars, wk_vars, pk_vars, it_vars>>

\* Whitted::get_intersection_payload(ray, entities) on the same ray and entities
Call_get_intersection_payload ==
    /\ bvh_op = "traverse_BVH_from_root"
    /\ payload' = get_intersection_payload(ray, m_primitives, Len(m_primitives))
    /\ bvh_op' = "get_intersection_payload"
    /\ UNCHANGED <<m_primitives, root, ray, record, aabb_vars, dn_vars, rn_vars, wk_vars, pk_vars, it_vars>>

BVHNext == Call_BVH \/ Call_traverse_BVH_from_root \/ Call_get_intersection_payload

InitBVH == AABBInit /\ BVHInit /\ DenoiserInit /\ RendererInit /\ WorkersInit /\ PackingInit
    /\ IntegratorInit
SpecBVH == InitBVH /\ [][BVHNext]_vars

BVHTypeOK == bvh_op \in {"none", "BVH", "traverse_BVH_from_root", "get_intersection_payload"}


(***************************************************************************)
(* Claims about the BVH.                                                   *)
(***************************************************************************)
Scanned == bvh_op = "get_intersection_payload"
Traversed == bvh_op \in {"traverse_BVH_from_root", "get_intersection_payload"}

\* the entity of the scene a hit belongs to (a triangle of a mesh counts as the mesh)
SceneEntity(address) == IF address = nullptr THEN 0 ELSE address[1]

\* the entities of the scene whose own intersection with the ray is at t
HitAt(prims, r, t) ==
    {i \in 1..Len(prims) :
        LET local == GetIntersectionRecord(prims[i], <<i>>, r)
        IN  local.has_intersection /\ local.t = t}

\* C1 as stated: for every set of primitives and every ray the traversal returns
\* the same hit flag, the same hit primitive and the same t as the linear scan
C1_Original ==
    Scanned =>
        /\ record.has_intersection = payload.has_value
        /\ record.has_intersection =>
            /\ record.t = payload.t
            /\ SceneEntity(record.hitted_entity) = SceneEntity(payload.entity_hitted)

\* C1: for every set of primitives (the empty one included, where the root is
\* null and every ray misses) and every ray with no zero direction component,
\* the traversal returns the same hit flag and the same t as the linear scan,
\* and its hit primitive is one whose own intersection is at that t: the
\* scan's primitive when only one primitive attains the smallest t; when
\* several do, the scan keeps the first of them and the traversal may return
\* another
C1_TraversalAgreesWithLinearScan ==
    (Scanned /\ NoZeroComponent(ray)) =>
        LET nearest == HitAt(m_primitives, ray, record.t)
        IN  /\ m_primitives = <<>> => (root = NullNode /\ ~record.has_intersection)
            /\ record.has_intersection = payload.has_value
            /\ record.has_intersection =>
                /\ record.t = payload.t
                /\ SceneEntity(record.hitted_entity) \in nearest
                /\ SceneEntity(payload.entity_hitted) \in nearest
                /\ \A i \in nearest : SceneEntity(payload.entity_hitted) <= i
                /\ Cardinality(nearest) = 1 =>
                       SceneEntity(record.hitted_entity) = SceneEntity(payload.entity_hitted)

\* two primitives are hit at the same smallest t and the traversal returns the other one
C1_Witness ==
    /\ Scanned
    /\ NoZeroComponent(ray)
    /\ Len(m_primitives) = 3
    /\ record.has_intersection
    /\ payload.has_value
    /\ SceneEntity(record.hitted_entity) # SceneEntity(payload.entity_hitted)

\* the scene is the mesh of the two triangles that form the unit square
IsUnitSquareMesh(prims) ==
    /\ Len(prims) = 1
    /\ prims[1].kind = "TriangleMesh"
    /\ prims[1].triangle_primitives = UnitSquare
SquareCentre == Vec(Q(1, 2), Q(1, 2), Zero)
\* the parameter at which the ray crosses the plane z = 0
PlaneDistance(r) == FDiv(FNeg(r.m_origin[3]), r.m_direction[3])
AimedAtCentre(r) ==
    /\ r.m_origin[3] # Zero
    /\ FGt(PlaneDistance(r), Zero)
    /\ RayAt(r, PlaneDistance(r)) = SquareCentre

\* C2 as stated: on the unit-square mesh every ray from off the plane aimed at
\* the square's centre is a hit of the traversal, at the plane distance
C2_Original ==
    (Traversed /\ IsUnitSquareMesh(m_primitives) /\ AimedAtCentre(ray)) =>
        /\ record.has_intersection
        /\ record.t = PlaneDistance(ray)

\* the shape of a tree: leaves, internal nodes, and the boxes of both
IsLeaf(node) == node.left = NullNode /\ node.right = NullNode
BoxUnion(a, b) ==
    [min_slab_values |-> [i \in 1..3 |-> IF FLe(a.min_slab_values[i], b.min_slab_values[i])
                                         THEN a.min_slab_values[i] ELSE b.min_slab_values[i]],
     max_slab_values |-> [i \in 1..3 |-> IF FGe(a.max_slab_values[i], b.max_slab_values[i])
                                         THEN a.max_slab_values[i] ELSE b.max_slab_values[i]]]
RECURSIVE WellShaped(_, _)
WellShaped(prims, node) ==
    IF IsLeaf(node)
    THEN /\ node.entity \in 1..Len(prims)
         /\ node.bounding_volume = Get3DAABB(prims[node.entity])
    ELSE /\ node.left # NullNode
         /\ node.right # NullNode
         /\ node.entity = 0
         /\ node.bounding_volume = BoxUnion(node.left.bounding_volume, node.right.bounding_volume)
         /\ WellShaped(prims, node.left)
         /\ WellShaped(prims, node.right)

\* C3: in every tree build_BVH produces (the scene's and each mesh's own) every
\* node is a leaf (both children null, one primitive, the box of that
\* primitive) or an internal node (two non-null children, no primitive, the
\* box the union of the children's boxes)
C3_EveryNodeIsLeafOrInternal ==
    bvh_op # "none" =>
        /\ m_primitives # <<>> => WellShaped(m_primitives, root)
        /\ \A i \in 1..Len(m_primitives) :
              (m_primitives[i].kind = "TriangleMesh" /\ m_primitives[i].triangle_primitives # <<>>) =>
                  WellShaped(m_primitives[i].triangle_primitives, m_primitives[i].bvh)

\* a tree of three primitives, one of them a mesh with a tree of its own
C3_Witness ==
    /\ bvh_op = "BVH"
    /\ Len(m_primitives) = 3
    /\ ~IsLeaf(root)
    /\ ~IsLeaf(root.right)
    /\ \E i \in 1..3 : m_primitives[i].kind = "TriangleMesh" /\ m_primitives[i].bvh # NullNode

\* the primitives of the leaves, left to right, and the number of internal nodes
RECURSIVE LeafEntities(_)
LeafEntities(node) ==
    IF node = NullNode THEN <<>>
    ELSE IF IsLeaf(node) THEN <<node.entity>>
    ELSE LeafEntities(node.left) \o LeafEntities(node.right)
RECURSIVE InternalNodes(_)
InternalNodes(node) ==
    IF node = NullNode \/ IsLeaf(node) THEN 0
    ELSE 1 + InternalNodes(node.left) + InternalNodes(node.right)

LeavesPartition(prims, tree) ==
    LET leaves == LeafEntities(tree)
        n == Len(prims)
    IN  /\ Len(leaves) = n
        /\ InternalNodes(tree) = n - 1
        /\ \A i \in 1..n : Cardinality({k \in 1..Len(leaves) : leaves[k] = i}) = 1
        /\ n = 2 => (InternalNodes(tree) = 1 /\ Len(leaves) = 2 /\ IsLeaf(tree.left) /\ IsLeaf(tree.right))

\* C4: the tree of n >= 1 primitives (the scene's, and each mesh's over its
\* triangles) has n leaves and n - 1 internal nodes and every primitive is the
\* primitive of exactly one leaf; two primitives give one internal node and
\* two leaves
C4_LeavesPartitionThePrimitives ==
    bvh_op # "none" =>
        /\ m_primitives # <<>> => LeavesPartition(m_primitives, root)
        /\ \A i \in 1..Len(m_primitives) :
              (m_primitives[i].kind = "TriangleMesh" /\ m_primitives[i].triangle_primitives # <<>>) =>
                  LeavesPartition(m_primitives[i].triangle_primitives, m_primitives[i].bvh)

\* the tree of three primitives after the sort has moved the first of them
C4_Witness ==
    /\ bvh_op = "BVH"
    /\ Len(m_primitives) = 3
    /\ Len(LeafEntities(root)) = 3
    /\ LeafEntities(root) # <<1, 2, 3>>

(***************************************************************************)
(* The denoiser at work: the viewport is sized, the settings are applied,  *)
(* the temporal history is restarted, and frames are shaded and handed to  *)
(* TemporalFiltering.                                                      *)
(***************************************************************************)
MaxFrames == 2

ViewportSizes == {<<2, 2>>}
Weightings == {Q(1, 5), Q(1, 2)}

translation(tx) ==
    << <<One, Zero, Zero, tx>>, <<Zero, One, Zero, Zero>>,
       <<Zero, Zero, One, Zero>>, <<Zero, Zero, Zero, One>> >>
perspective ==
    << <<One, Zero, Zero, Zero>>, <<Zero, One, Zero, Zero>>,
       <<Zero, Zero, One, Zero>>, <<Zero, Zero, R(-1), Zero>> >>
\* what a frame can be: <<view matrix, projection matrix, depth of the surface seen>>
Shots ==
    {<<identity_matrix, identity_matrix, R(-2)>>, <<translation(One), identity_matrix, R(-2)>>,
     <<translation(Q(-1, 2)), identity_matrix, R(-2)>>, <<identity_matrix, perspective, R(-2)>>,
     <<identity_matrix, perspective, Zero>>}

\* what the primary rays of a frame can have found, pixel by pixel
\* (<<primitive ids, colours>>, each repeated every four pixels; id -1 is the sky)
White == VecI(1, 1, 1)
Warm == Vec(Zero, Q(1, 2), One)
Cold == Vec(One, Q(1, 2), Zero)
Surfaces ==
    {<< <<0, 0, 0, 0>>, <<White, White, White, White>> >>,
     << <<0, 1, -1, 0>>, <<White, White, White, White>> >>,
     << <<0, 1, -1, 0>>, <<Warm, Warm, Cold, Warm>> >>}

\* canonical coordinate of the centre of pixel i of n
pixel_centre(i, n) == FSub(FDiv(R(2 * i + 1), R(n)), One)

ShadedFrame(g, width, height, surface, shot) ==
    [pixel_world_position |->
        [g.pixel_world_position EXCEPT !.buffer = [k \in 1..(width * height) |->
            <<pixel_centre((k - 1) % width, width), pixel_centre((k - 1) \div width, height), shot[3]>>]],
     pixel_color |->
        [g.pixel_color EXCEPT !.buffer = [k \in 1..(width * height) |-> surface[2][((k - 1) % 4) + 1]]],
     primitive_id |->
        [g.primitive_id EXCEPT !.buffer = [k \in 1..(width * height) |-> surface[1][((k - 1) % 4) + 1]]],
     projection_matrix |-> shot[2],
     view_matrix |-> shot[1]]

\* square roots are modelled only where they are exact
SqrtIsExactTF(g, prev, width, height) ==
    \A x \in 0..(width - 1), y \in 0..(height - 1) :
        takes_history(g, prev, width, height, x, y) =>
            \A c \in 1..3 :
                IsExactSquare(std_max(kernel_mean_square(g.pixel_color, At(g.pixel_color, x, y),
                                                         KernelPixels(x, y, width, height))[c], Zero))

Call_ResizeViewport ==
    \E size \in ViewportSizes :
        /\ ~(frame_width = size[1] /\ frame_height = size[2])
        /\ dn_op' = "ResizeViewport"
        /\ accessible_previous_frame' = FALSE
        /\ frame_width' = size[1]
        /\ frame_height' = size[2]
        /\ g_buffer' = G_Buffer_Reset(g_buffer, size[1], size[2])
        /\ filtered_frame_buffer' = Reset(filtered_frame_buffer, size[1], size[2], ZeroVec)
        /\ UNCHANGED <<using_temporal_filtering, current_frame_weighting,
                       previous_frame_g_buffer, dn_entry, frames, restarted>>
        /\ UNCHANGED <<aabb_vars, bvh_vars, rn_vars, wk_vars, pk_vars, it_vars>>

Disable_TemporalFiltering ==
    /\ using_temporal_filtering
    /\ dn_op' = "settings"
    /\ using_temporal_filtering' = FALSE
    /\ UNCHANGED <<frame_width, frame_height, current_frame_weighting, accessible_previous_frame,
                   g_buffer, previous_frame_g_buffer, filtered_frame_buffer, dn_entry, frames, restarted>>
    /\ UNCHANGED <<aabb_vars, bvh_vars, rn_vars, wk_vars, pk_vars, it_vars>>

Enable_TemporalFiltering ==
    \E weighting \in Weightings :
        /\ ~(using_temporal_filtering /\ current_frame_weighting = weighting)
        /\ dn_op' = "settings"
        /\ using_temporal_filtering' = TRUE
        /\ current_frame_weighting' = weighting
        /\ UNCHANGED <<frame_width, frame_height, accessible_previous_frame,
                       g_buffer, previous_frame_g_buffer, filtered_frame_buffer, dn_entry, frames, restarted>>
        /\ UNCHANGED <<aabb_vars, bvh_vars, rn_vars, wk_vars, pk_vars, it_vars>>

RestartTemporal_keeps_flag ==
    /\ dn_op' = "RestartTemporal"
    /\ restarted' = TRUE
    /\ UNCHANGED <<frame_width, frame_height, using_temporal_filtering, current_frame_weighting,
                   accessible_previous_frame, g_buffer, previous_frame_g_buffer,
                   filtered_frame_buffer, dn_entry, frames>>
    /\ UNCHANGED <<aabb_vars, bvh_vars, rn_vars, wk_vars, pk_vars, it_vars>>

RestartTemporal ==
    /\ dn_op' = "RestartTemporal"
    /\ accessible_previous_frame' = FALSE
    /\ restarted' = TRUE
    /\ UNCHANGED <<frame_width, frame_height, using_temporal_filtering, current_frame_weighting,
                   g_buffer, previous_frame_g_buffer, filtered_frame_buffer, dn_entry, frames>>
    /\ UNCHANGED <<aabb_vars, bvh_vars, rn_vars, wk_vars, pk_vars, it_vars>>

TemporalFiltering_returns(result) ==
    /\ filtered_frame_buffer' = result.filtered_frame_buffer
    /\ g_buffer' = result.g_buffer
    /\ previous_frame_g_buffer' = result.previous_frame_g_buffer
    /\ accessible_previous_frame' = result.accessible_previous_frame

TemporalFiltering_called_on(g) ==
    /\ (using_temporal_filtering /\ accessible_previous_frame)
          => SqrtIsExactTF(g, previous_frame_g_buffer, frame_width, frame_height)
    /\ dn_op' = "TemporalFiltering"
    /\ dn_entry' = [using |-> using_temporal_filtering, accessible |-> accessible_previous_frame,
                    weighting |-> current_frame_weighting,
                    g_buffer |-> g, previous |-> previous_frame_g_buffer,
                    restarted |-> restarted]
    /\ TemporalFiltering_returns(
          TemporalFiltering(g, previous_frame_g_buffer, using_temporal_filtering,
                            accessible_previous_frame, current_frame_weighting,
                            frame_width, frame_height, filtered_frame_buffer))

Call_TemporalFiltering ==
    /\ frames < MaxFrames
    /\ frame_width > 0
    /\ \E surface \in Surfaces, shot \in Shots :
          TemporalFiltering_called_on(
              ShadedFrame(g_buffer, frame_width, frame_height, surface, shot))
    /\ frames' = frames + 1
    /\ restarted' = FALSE
    /\ UNCHANGED <<frame_width, frame_height, using_temporal_filtering, current_frame_weighting>>
    /\ UNCHANGED <<aabb_vars, bvh_vars, rn_vars, wk_vars, pk_vars, it_vars>>

DenoiserNext ==
    \/ Call_ResizeViewport
    \/ Disable_TemporalFiltering
    \/ Enable_TemporalFiltering
    \/ RestartTemporal
    \/ Call_TemporalFiltering

InitDenoiser == AABBInit /\ BVHInit /\ DenoiserInit /\ RendererInit /\ WorkersInit /\ PackingInit
    /\ IntegratorInit
SpecDenoiser == InitDenoiser /\ [][DenoiserNext]_vars

DenoiserTypeOK ==
    /\ frames \in 0..MaxFrames
    /\ using_temporal_filtering \in BOOLEAN
    /\ accessible_previous_frame \in BOOLEAN
    /\ current_frame_weighting \in Weightings
    /\ Len(g_buffer.pixel_color.buffer) = frame_width * frame_height
    /\ Len(filtered_frame_buffer.buffer) = frame_width * frame_height

(***************************************************************************)
(* Claims about the temporal pass.                                         *)
(***************************************************************************)
\* the last step was a TemporalFiltering call that took the skipping path
Skipped == dn_op = "TemporalFiltering" /\ (~dn_entry.using \/ ~dn_entry.accessible)

\* C9 as stated: whenever TemporalFiltering is called with filtering disabled,
\* or enabled with no accessible previous frame, its output equals the input
\* g_buffer.pixel_color and accessible_previous_frame is false on return.
C9_Original ==
    Skipped =>
        /\ filtered_frame_buffer = dn_entry.g_buffer.pixel_color
        /\ accessible_previous_frame = FALSE

\* C9 (amended): a TemporalFiltering call with filtering disabled, or enabled
\* with no accessible previous frame, outputs the input g_buffer.pixel_color
\* exactly and leaves the G-buffer as it was; when disabled the flag is false
\* on return and the stored previous frame is untouched, when enabled the
\* input G-buffer is stored as the previous frame and the flag is true on
\* return.
C9_SkippedPassCopiesInput ==
    Skipped =>
        /\ filtered_frame_buffer = dn_entry.g_buffer.pixel_color
        /\ g_buffer = dn_entry.g_buffer
        /\ ~dn_entry.using =>
              /\ accessible_previous_frame = FALSE
              /\ previous_frame_g_buffer = dn_entry.previous
        /\ dn_entry.using =>
              /\ accessible_previous_frame = TRUE
              /\ previous_frame_g_buffer = dn_entry.g_buffer

\* an enabled call that found the flag cleared although a frame of the
\* viewport's size, with other colours, was still stored
C9_Witness ==
    /\ Skipped
    /\ dn_entry.using
    /\ Len(dn_entry.previous.pixel_color.buffer) = frame_width * frame_height
    /\ dn_entry.previous.pixel_color # dn_entry.g_buffer.pixel_color
    /\ dn_entry.previous.primitive_id = dn_entry.g_buffer.primitive_id
    /\ filtered_frame_buffer = dn_entry.g_buffer.pixel_color

\* the pixel's world position in the previous camera's canonical square
Reprojected(x, y) ==
    LET c == MatVec(dn_entry.previous.projection_matrix,
                    MatVec(dn_entry.previous.view_matrix,
                           Vec4(At(dn_entry.g_buffer.pixel_world_position, x, y))))
    IN  <<FDiv(c[1], c[4]), FDiv(c[2], c[4])>>

\* strictly inside the canonical square, i.e. strictly inside the viewport
LandsInside(p) ==
    /\ FLt(R(-1), p[1]) /\ FLt(p[1], One)
    /\ FLt(R(-1), p[2]) /\ FLt(p[2], One)

Floor(a) == a[1] \div a[2]

\* the previous frame's pixel a point of the canonical square falls in
PixelUnder(p) ==
    <<Floor(FDiv(FMul(FAdd(p[1], One), R(frame_width)), R(2))),
      Floor(FDiv(FMul(FAdd(p[2], One), R(frame_height)), R(2)))>>

HasGeometry(x, y) == At(dn_entry.g_buffer.primitive_id, x, y) # -1

SamePrimitiveBefore(x, y) ==
    LET q == PixelUnder(Reprojected(x, y))
    IN  At(dn_entry.previous.primitive_id, q[1], q[2]) = At(dn_entry.g_buffer.primitive_id, x, y)

HasHistory(x, y) ==
    HasGeometry(x, y) /\ LandsInside(Reprojected(x, y)) /\ SamePrimitiveBefore(x, y)

ClampChannel(v, lo, hi) == IF FLt(v, lo) THEN lo ELSE IF FLt(hi, v) THEN hi ELSE v

\* the previous colour under the reprojected position, clamped to the kernel's
\* mean plus or minus tolerance times its deviation
ClampedPrevious(x, y) ==
    LET q == PixelUnder(Reprojected(x, y))
        before == At(dn_entry.previous.pixel_color, q[1], q[2])
        cells == KernelPixels(x, y, frame_width, frame_height)
        mean == kernel_mean(dn_entry.g_buffer.pixel_color, cells)
        dev == kernel_deviation(dn_entry.g_buffer.pixel_color,
                                At(dn_entry.g_buffer.pixel_color, x, y), cells)
    IN  [c \in 1..3 |-> ClampChannel(before[c], FSub(mean[c], FMul(tolerance, dev[c])),
                                     FAdd(mean[c], FMul(tolerance, dev[c])))]

Blended(x, y) ==
    LET w == dn_entry.weighting
        before == ClampedPrevious(x, y)
        now == At(dn_entry.g_buffer.pixel_color, x, y)
    IN  [c \in 1..3 |-> FAdd(FMul(FSub(One, w), before[c]), FMul(w, now[c]))]

Pixels == (0..(frame_width - 1)) \X (0..(frame_height - 1))

WithHistory == dn_op = "TemporalFiltering" /\ dn_entry.using /\ dn_entry.accessible

\* C10: in a TemporalFiltering call with an accessible previous frame, a pixel's
\* output is (1 - w) * clamped previous colour + w * current colour, with
\* w = current_frame_weighting, exactly when the pixel has geometry, its world
\* position reprojected through the previous frame's matrices lands (strictly)
\* inside the viewport and the previous frame's primitive id there equals its
\* own; every other pixel's output is its current colour.
C10_BlendExactlyWhenHistoryMatches ==
    WithHistory =>
        /\ dn_entry.weighting = current_frame_weighting
        /\ \A p \in Pixels :
              At(filtered_frame_buffer, p[1], p[2]) =
                  IF HasHistory(p[1], p[2]) THEN Blended(p[1], p[2])
                  ELSE At(dn_entry.g_buffer.pixel_color, p[1], p[2])

\* one frame in which a pixel is visibly blended, another has geometry and
\* lands inside the viewport on a different primitive, and a third shows the sky
C10_Witness ==
    /\ WithHistory
    /\ \E p \in Pixels :
          /\ HasHistory(p[1], p[2])
          /\ At(filtered_frame_buffer, p[1], p[2]) # At(dn_entry.g_buffer.pixel_color, p[1], p[2])
    /\ \E p \in Pixels :
          /\ HasGeometry(p[1], p[2]) /\ LandsInside(Reprojected(p[1], p[2]))
          /\ ~SamePrimitiveBefore(p[1], p[2])
    /\ \E p \in Pixels : ~HasGeometry(p[1], p[2])

(***************************************************************************)
(* The renderer at work: the window is sized, buttons of the control panel *)
(* are pressed, frames are rendered.                                       *)
(***************************************************************************)
WindowSizes == {<<2, 2>>, <<70, 66>>}

\* the buttons the model presses, named by the option they switch on
PressedOptions ==
    {"using_JointBilateralFiltering_15",
     "using_JointBilateralFiltering_33", "using_JointBilateralFiltering_65",
     "disable_TemporalFiltering", "using_temporal_kernel_7", "using_temporal_kernel_15",
     "using_temporal_kernel_33"}
PressedButtons == {button \in Buttons : \E f \in DOMAIN button : button[f] /\ f \in PressedOptions}

ResizeViewport_always_resets ==
    \E size \in WindowSizes :
        /\ rn_op' = "ResizeViewport"
        /\ frame_image_final' = size
        /\ denoiser' = Resize(denoiser, size[1], size[2])
        /\ buffers' = ResizeViewport_buffers(buffers, size[1], size[2])
        /\ invalidated' = TRUE
        /\ UNCHANGED <<settings, last_frame, chosen>>
        /\ UNCHANGED <<aabb_vars, bvh_vars, dn_vars, wk_vars, pk_vars, it_vars>>

\* Renderer::ResizeViewport
ResizeViewport ==
    \E size \in WindowSizes :
        /\ rn_op' = "ResizeViewport"
        /\ IF frame_image_final = size
           THEN UNCHANGED <<frame_image_final, denoiser, buffers, invalidated>>
           ELSE /\ frame_image_final' = size
                /\ denoiser' = Resize(denoiser, size[1], size[2])
                /\ buffers' = ResizeViewport_buffers(buffers, size[1], size[2])
                /\ invalidated' = TRUE
        /\ UNCHANGED <<settings, last_frame, chosen>>
        /\ UNCHANGED <<aabb_vars, bvh_vars, dn_vars, wk_vars, pk_vars, it_vars>>

\* OnUIRender: the body of a pressed button, then no Render (offline mode)
OnUIRender_pressed(button) ==
    /\ rn_op' = "OnUIRender"
    /\ denoiser' = [denoiser EXCEPT !.accessible_previous_frame = FALSE]
    /\ settings' = Pressed(settings, button)
    /\ chosen' = [JBF |-> Announced(button, JBF_options, "disable_JointBilateralFiltering", chosen.JBF),
                   temporal |-> Announced(button, temporal_options, "disable_TemporalFiltering",
                                          chosen.temporal)]
    /\ UNCHANGED <<frame_image_final, buffers, invalidated, last_frame>>
    /\ UNCHANGED <<aabb_vars, bvh_vars, dn_vars, wk_vars, pk_vars, it_vars>>

\* OnUIRender: one button of the control panel is pressed
OnUIRender_button == \E button \in PressedButtons : OnUIRender_pressed(button)

\* what the temporal pass of a frame finds on entry
Render_frame(d) ==
    [accessible_on_entry |-> d.accessible_previous_frame,
     invalidated |-> invalidated,
     was_enabled |-> denoiser.using_temporal_filtering,
     enabled |-> d.using_temporal_filtering]

Render_returns(result) ==
    /\ denoiser' = result.denoiser
    /\ buffers' = result.buffers

Render_runs(sd) ==
    /\ settings' = sd.settings
    /\ last_frame' = Render_frame(sd.denoiser)
    /\ Render_returns(Render_passes(sd.denoiser, buffers))

\* Renderer::Render
Render ==
    /\ frame_image_final # <<>>
    /\ rn_op' = "Render"
    /\ Render_runs(Render_settings(settings, denoiser))
    /\ invalidated' = FALSE
    /\ UNCHANGED <<frame_image_final, chosen>>
    /\ UNCHANGED <<aabb_vars, bvh_vars, dn_vars, wk_vars, pk_vars, it_vars>>

RendererNext == ResizeViewport \/ OnUIRender_button \/ Render

InitRenderer == AABBInit /\ BVHInit /\ DenoiserInit /\ RendererInit /\ WorkersInit /\ PackingInit
    /\ IntegratorInit
SpecRenderer == InitRenderer /\ [][RendererNext]_vars

\* the last step was a TemporalFiltering call made with filtering enabled
EnabledCall == dn_op = "TemporalFiltering" /\ dn_entry.using

\* what an enabled call leaves stored: the frame it was given, with the call's
\* output as colour channel and the frame's own camera matrices
StoredIsFrameJustFiltered ==
    /\ previous_frame_g_buffer = g_buffer
    /\ previous_frame_g_buffer.pixel_color = filtered_frame_buffer
    /\ previous_frame_g_buffer.view_matrix = dn_entry.g_buffer.view_matrix
    /\ previous_frame_g_buffer.projection_matrix = dn_entry.g_buffer.projection_matrix
    /\ previous_frame_g_buffer.pixel_world_position = dn_entry.g_buffer.pixel_world_position
    /\ previous_frame_g_buffer.primitive_id = dn_entry.g_buffer.primitive_id
    /\ accessible_previous_frame

\* a call that reprojects reads the frame left by the call before it
ReprojectsFromPrecedingFrame ==
    (dn_op' = "TemporalFiltering" /\ frames' = frames + 1
        /\ using_temporal_filtering /\ accessible_previous_frame)
    => /\ dn_entry'.previous = g_buffer
       /\ dn_entry'.previous.pixel_color = filtered_frame_buffer
       /\ frames > 0

\* C12: after every TemporalFiltering call made with filtering enabled, the
\* stored previous frame is a copy of the current frame's G-buffer whose colour
\* channel is that call's output and whose view and projection matrices are
\* those of the camera that rendered the frame, so the reprojection of the next
\* call uses the immediately preceding rendered frame.
C12_StoredFrameIsPrecedingFrame ==
    /\ [](EnabledCall => StoredIsFrameJustFiltered)
    /\ [](accessible_previous_frame =>
            previous_frame_g_buffer = g_buffer
            /\ previous_frame_g_buffer.pixel_color = filtered_frame_buffer)
    /\ [][ReprojectsFromPrecedingFrame]_vars

\* a second enabled call, from a moved camera, whose blended output differs
\* from its input colours and has been stored with the new camera's matrices
C12_Witness ==
    /\ EnabledCall
    /\ dn_entry.accessible
    /\ filtered_frame_buffer # dn_entry.g_buffer.pixel_color
    /\ previous_frame_g_buffer.pixel_color = filtered_frame_buffer
    /\ dn_entry.previous.view_matrix # dn_entry.g_buffer.view_matrix
    /\ previous_frame_g_buffer.view_matrix = dn_entry.g_buffer.view_matrix

\* the last step was the first TemporalFiltering call after a RestartTemporal
FirstCallAfterRestart == dn_op = "TemporalFiltering" /\ dn_entry.restarted

\* C13: after RestartTemporal() is called, the temporal pass of the next Render
\* performs no reprojection: its output equals that frame's (spatially
\* filtered) input colour for every pixel, whatever history was stored.
C13_RestartedPassCopiesInput ==
    FirstCallAfterRestart =>
        /\ ~dn_entry.accessible
        /\ \A p \in Pixels :
              At(filtered_frame_buffer, p[1], p[2]) = At(dn_entry.g_buffer.pixel_color, p[1], p[2])
        /\ filtered_frame_buffer = dn_entry.g_buffer.pixel_color

\* an enabled call after a restart, with a stored frame of other colours that
\* a reprojection would have blended in at some pixel
C13_Witness ==
    /\ FirstCallAfterRestart
    /\ dn_entry.using
    /\ Len(dn_entry.previous.pixel_color.buffer) = frame_width * frame_height
    /\ dn_entry.previous.pixel_color # dn_entry.g_buffer.pixel_color
    /\ \E p \in Pixels :
          /\ takes_history(dn_entry.g_buffer, dn_entry.previous, frame_width, frame_height, p[1], p[2])
          /\ At(dn_entry.previous.pixel_color, p[1], p[2]) # At(dn_entry.g_buffer.pixel_color, p[1], p[2])
    /\ filtered_frame_buffer = dn_entry.g_buffer.pixel_color

RendererTypeOK ==
    /\ DOMAIN settings = DOMAIN Settings
    /\ \A f \in DOMAIN settings : settings[f] \in BOOLEAN
    /\ denoiser.accessible_previous_frame \in BOOLEAN
    /\ denoiser.JBF_FilterKernelHalfSize \in {3, 7, 16, 32}
    /\ denoiser.Temporal_FilterKernelHalfSize \in {3, 7, 16}
    /\ invalidated \in BOOLEAN

(***************************************************************************)
(* Claims about the renderer and the control panel.                        *)
(***************************************************************************)
\* the last step was a Render whose temporal pass was the first one after a
\* change of viewport size or after temporal filtering was switched on
FirstPassAfterChange ==
    /\ rn_op = "Render"
    /\ \/ last_frame.invalidated
       \/ ~last_frame.was_enabled /\ last_frame.enabled

\* the flag is raised only by a Render whose temporal pass ran enabled
RaisedOnlyByEnabledPass ==
    (~denoiser.accessible_previous_frame /\ denoiser'.accessible_previous_frame)
        => (rn_op' = "Render" /\ denoiser'.using_temporal_filtering)

\* C11: across any sequence of resizes, setting changes and Render calls,
\* accessible_previous_frame is false on entry to the first temporal pass that
\* follows a change of viewport size or a switch of temporal filtering from
\* disabled to enabled, and the flag becomes true only by completing a temporal
\* pass with filtering enabled.
C11_FlagClearedByResizeAndEnabling ==
    /\ [](FirstPassAfterChange => ~last_frame.accessible_on_entry)
    /\ [][RaisedOnlyByEnabledPass]_vars

\* a frame rendered after both a resize and a re-enabling, whose temporal pass
\* ran enabled and raised the flag
C11_Witness ==
    /\ FirstPassAfterChange
    /\ last_frame.invalidated
    /\ ~last_frame.was_enabled
    /\ last_frame.enabled
    /\ ~last_frame.accessible_on_entry
    /\ denoiser.accessible_previous_frame
    /\ buffers.previous_frame_g_buffer.pixel_color.size = 70 * 66

(***************************************************************************)
(* Specification of the parallel loops of Render.  Each std::for_each      *)
(* starts one worker per pixel, in any order, and returns when all of them *)
(* have finished; the code between two loops runs on the calling thread.   *)
(***************************************************************************)
MaxRenders == 2

Cameras == {"front", "panned"}
Wall == [p \in Workers |-> 0]
Corner == [p \in Workers |-> IF p = <<1, 1>> THEN -1 ELSE 0]
Horizon == [p \in Workers |-> IF p[2] = 1 THEN -1 ELSE 3]
Sights == {[hits |-> h, camera |-> c] : h \in {Wall, Corner, Horizon}, c \in Cameras}

Finished_in_part(loop) == pass = loop /\ done[loop] # {}

Finished(loop) == pass = loop /\ done[loop] = Workers

Worker_finishes(p, buffers_after, worker_accesses) ==
    /\ frame_buffers' = buffers_after
    /\ done' = [done EXCEPT ![pass] = @ \cup {p}]
    /\ accesses' = accesses \cup worker_accesses
    /\ UNCHANGED <<pass, switches, sight, at_entry, renders>>
    /\ UNCHANGED <<aabb_vars, bvh_vars, dn_vars, rn_vars, pk_vars, it_vars>>

Loop_starts(loop, buffers_after, workers_done) ==
    /\ pass' = loop
    /\ frame_buffers' = buffers_after
    /\ at_entry' = buffers_after
    /\ done' = [done EXCEPT ![loop] = workers_done]
    /\ accesses' = {}
    /\ UNCHANGED <<aabb_vars, bvh_vars, dn_vars, rn_vars, pk_vars, it_vars>>

\* Render up to its first loop: the settings are mapped to the denoiser's flags
Render_called ==
    /\ pass = "idle"
    /\ renders < MaxRenders
    /\ \E s \in Sights, using_JBF \in BOOLEAN, using_temporal \in BOOLEAN :
          /\ sight' = s
          /\ switches' = [switches EXCEPT !.using_JBF_filtering = using_JBF,
                                          !.using_temporal_filtering = using_temporal]
    /\ pass' = "RayGen_Shader"
    /\ done' = [l \in Loops |-> {}]
    /\ at_entry' = frame_buffers
    /\ accesses' = {}
    /\ UNCHANGED <<frame_buffers, renders>>
    /\ UNCHANGED <<aabb_vars, bvh_vars, dn_vars, rn_vars, pk_vars, it_vars>>

RayGen_Shader_worker ==
    /\ pass = "RayGen_Shader"
    /\ \E p \in Workers \ done[pass] :
          Worker_finishes(p,
              [frame_buffers EXCEPT !.g_buffer = RayGen_Shader(frame_buffers.g_buffer, p,
                                                               sight.hits[p], renders)],
              RayGen_Shader_accesses(p, sight.hits[p]))

\* the shading loop has returned: Render calls JointBilateralFiltering
JointBilateralFiltering_called ==
    /\ Finished("RayGen_Shader")
    /\ Loop_starts("JointBilateralFiltering",
                   JointBilateralFiltering_entered(frame_buffers, switches.using_JBF_filtering),
                   IF switches.using_JBF_filtering THEN {} ELSE Workers)
    /\ UNCHANGED <<switches, sight, renders>>

JointBilateralFiltering_worker_in_place ==
    /\ pass = "JointBilateralFiltering"
    /\ \E p \in Workers \ done[pass] :
          Worker_finishes(p,
              [frame_buffers EXCEPT !.spatial_filtered_frame_buffer[p] =
                  JointBilateralFiltering_pixel(frame_buffers.g_buffer, p,
                                                switches.JBF_FilterKernelHalfSize),
                                    !.g_buffer.pixel_color[p] =
                  JointBilateralFiltering_pixel(frame_buffers.g_buffer, p,
                                                switches.JBF_FilterKernelHalfSize)],
              JointBilateralFiltering_accesses(frame_buffers.g_buffer, p,
                                               switches.JBF_FilterKernelHalfSize)
              \cup Writes(p, "g_buffer.pixel_color", {p}))

JointBilateralFiltering_worker ==
    /\ pass = "JointBilateralFiltering"
    /\ \E p \in Workers \ done[pass] :
          Worker_finishes(p,
              [frame_buffers EXCEPT !.spatial_filtered_frame_buffer[p] =
                  JointBilateralFiltering_pixel(frame_buffers.g_buffer, p,
                                                switches.JBF_FilterKernelHalfSize)],
              JointBilateralFiltering_accesses(frame_buffers.g_buffer, p,
                                               switches.JBF_FilterKernelHalfSize))

\* JointBilateralFiltering has returned: Render stores the camera's matrices
\* and calls TemporalFiltering
TemporalFiltering_called ==
    /\ Finished("JointBilateralFiltering")
    /\ Loop_starts("TemporalFiltering",
                   TemporalFiltering_entered(
                       JointBilateralFiltering_left(frame_buffers, switches.using_JBF_filtering,
                                                    sight.camera),
                       switches.using_temporal_filtering /\ switches.accessible_previous_frame),
                   IF switches.using_temporal_filtering /\ switches.accessible_previous_frame
                   THEN {} ELSE Workers)
    /\ UNCHANGED <<switches, sight, renders>>

TemporalFiltering_worker ==
    /\ pass = "TemporalFiltering"
    /\ \E p \in Workers \ done[pass] :
          Worker_finishes(p,
              [frame_buffers EXCEPT !.temporal_filtered_frame_buffer[p] =
                  TemporalFiltering_pixel(frame_buffers.g_buffer,
                                          frame_buffers.previous_frame_g_buffer, p)],
              TemporalFiltering_accesses(frame_buffers.g_buffer,
                                         frame_buffers.previous_frame_g_buffer, p))

\* TemporalFiltering has returned: Render starts the packing loop
packing_started ==
    /\ Finished("TemporalFiltering")
    /\ Loop_starts("packing",
                   TemporalFiltering_left(frame_buffers, switches.using_temporal_filtering,
                                          switches.accessible_previous_frame),
                   {})
    /\ switches' = [switches EXCEPT !.accessible_previous_frame = switches.using_temporal_filtering]
    /\ UNCHANGED <<sight, renders>>

packing_worker ==
    /\ pass = "packing"
    /\ \E p \in Workers \ done[pass] :
          Worker_finishes(p,
              [frame_buffers EXCEPT !.frame_data[p] =
                  packing_pixel(frame_buffers.temporal_filtered_frame_buffer, p)],
              packing_accesses(p))

Render_returned ==
    /\ Finished("packing")
    /\ pass' = "idle"
    /\ renders' = renders + 1
    /\ UNCHANGED <<done, frame_buffers, switches, sight, accesses, at_entry>>
    /\ UNCHANGED <<aabb_vars, bvh_vars, dn_vars, rn_vars, pk_vars, it_vars>>

WorkersNext ==
    \/ Render_called
    \/ RayGen_Shader_worker
    \/ JointBilateralFiltering_called
    \/ JointBilateralFiltering_worker
    \/ TemporalFiltering_called
    \/ TemporalFiltering_worker
    \/ packing_started
    \/ packing_worker
    \/ Render_returned

InitWorkers == AABBInit /\ BVHInit /\ DenoiserInit /\ RendererInit /\ WorkersInit /\ PackingInit
    /\ IntegratorInit
SpecWorkers == InitWorkers /\ [][WorkersNext]_vars

WorkersTypeOK ==
    /\ pass \in Loops \cup {"idle"}
    /\ \A l \in Loops : done[l] \subseteq Workers
    /\ renders \in 0..MaxRenders
    /\ \A a \in accesses : a.access \in {"read", "write"} /\ a.worker \in Workers
    /\ pass \in Loops => \A a \in accesses : a.worker \in done[pass]

(***************************************************************************)
(* Claims about the passes of Render and their per-pixel workers.          *)
(***************************************************************************)
GChannels ==
    {"pixel_world_position", "pixel_color", "pixel_world_surface_normal", "contributor",
     "primitive_id"}

\* the step in which Render calls JointBilateralFiltering with the filter disabled
JBF_disabled_call ==
    pass = "RayGen_Shader" /\ pass' = "JointBilateralFiltering" /\ ~switches.using_JBF_filtering

\* the step in which that call has returned (Render then stores the camera's
\* matrices in the G-buffer and calls TemporalFiltering)
JBF_disabled_return ==
    pass = "JointBilateralFiltering" /\ pass' = "TemporalFiltering" /\ ~switches.using_JBF_filtering

JBF_disabled_copies ==
    /\ JBF_disabled_call =>
          /\ \A p \in Workers :
                frame_buffers'.spatial_filtered_frame_buffer[p] = frame_buffers.g_buffer.pixel_color[p]
          /\ frame_buffers'.g_buffer = frame_buffers.g_buffer
          /\ done'["JointBilateralFiltering"] = Workers
    /\ JBF_disabled_return =>
          /\ frame_buffers'.spatial_filtered_frame_buffer = frame_buffers.spatial_filtered_frame_buffer
          /\ \A c \in GChannels : frame_buffers'.g_buffer[c] = frame_buffers.g_buffer[c]

\* C14: when using_JBF_filtering is false, JointBilateralFiltering sets the
\* output buffer equal to g_buffer.pixel_color element for element and leaves
\* every channel of the G-buffer unchanged.
C14_DisabledSpatialFilterCopies ==
    /\ [][JBF_disabled_copies]_vars
    /\ []((pass = "JointBilateralFiltering" /\ ~switches.using_JBF_filtering) =>
            frame_buffers.spatial_filtered_frame_buffer = frame_buffers.g_buffer.pixel_color)

\* a disabled spatial pass, in the second Render, over a frame with shaded and
\* sky pixels
C14_Witness ==
    /\ pass = "JointBilateralFiltering"
    /\ ~switches.using_JBF_filtering
    /\ renders = 1
    /\ \E p, q \in Workers :
          /\ frame_buffers.g_buffer.contributor[p] = 1
          /\ frame_buffers.g_buffer.contributor[q] = 0
          /\ frame_buffers.spatial_filtered_frame_buffer[p] = [by |-> "shading", frame |-> 1, pixel |-> p]
          /\ frame_buffers.spatial_filtered_frame_buffer[q] = [by |-> "sky"]
    /\ frame_buffers.spatial_filtered_frame_buffer = frame_buffers.g_buffer.pixel_color
    /\ frame_buffers.frame_data # Channel(Cleared)

\* the channels of the G-buffer that mean nothing where contributor is 0
MeaninglessChannels ==
    {"g_buffer.pixel_color", "g_buffer.pixel_world_position", "g_buffer.pixel_world_surface_normal"}

\* the reads a denoiser worker makes of another pixel's colour, position or normal
ReadsOfOtherPixels ==
    {a \in accesses : /\ a.access = "read"
                      /\ a.buffer \in MeaninglessChannels
                      /\ a.pixel # a.worker}

\* C15 as stated: neither denoiser pass reads the colour, world position or
\* normal of a pixel whose contributor flag is 0 when computing the output of
\* any other pixel: such pixels are left out of the spatial kernel sum and out
\* of the temporal filter's mean/deviation window.
C15_Original ==
    pass \in {"JointBilateralFiltering", "TemporalFiltering"} =>
        \A a \in ReadsOfOtherPixels : frame_buffers.g_buffer.contributor[a.pixel] # 0

\* the half of C15 about the spatial kernel sum
SpatialKernelSkipsNonContributors ==
    pass = "JointBilateralFiltering" =>
        \A a \in ReadsOfOtherPixels : frame_buffers.g_buffer.contributor[a.pixel] # 0

\* every worker of the loops before this one has finished
AllFinishedBefore(loop) ==
    CASE loop = "RayGen_Shader" -> TRUE
      [] loop = "JointBilateralFiltering" -> done["RayGen_Shader"] = Workers
      [] loop = "TemporalFiltering" ->
            done["RayGen_Shader"] = Workers /\ done["JointBilateralFiltering"] = Workers
      [] loop = "packing" ->
            /\ done["RayGen_Shader"] = Workers
            /\ done["JointBilateralFiltering"] = Workers
            /\ done["TemporalFiltering"] = Workers

\* a step in which some pixel of the loop is processed
ProcessesPixelOf(loop) == done'[loop] # done[loop] /\ done'[loop] # {}

\* once a pass has started, the G-buffer holds this frame's shading of every pixel
ShadingComplete ==
    \A p \in Workers :
        /\ frame_buffers.g_buffer.primitive_id[p] = sight.hits[p]
        /\ frame_buffers.g_buffer.contributor[p] = (IF sight.hits[p] = -1 THEN 0 ELSE 1)

\* C16: within every Render call the passes are strictly ordered: every pixel's
\* shading and G-buffer writes finish before any pixel of the spatial filter
\* starts, every pixel of the spatial filter finishes before any pixel of the
\* temporal filter starts, and the temporal filter finishes before any pixel is
\* packed into the final buffer.
C16_PassesStrictlyOrdered ==
    /\ [](\A loop \in Loops : done[loop] # {} => AllFinishedBefore(loop))
    /\ [][\A loop \in Loops : ProcessesPixelOf(loop) => AllFinishedBefore(loop)]_vars
    /\ [](pass \in {"JointBilateralFiltering", "TemporalFiltering", "packing"} => ShadingComplete)
    /\ [](pass = "packing" =>
            frame_buffers.temporal_filtered_frame_buffer = at_entry.temporal_filtered_frame_buffer)

\* the packing loop half way through a Render whose spatial and temporal loops
\* both ran one worker per pixel
C16_Witness ==
    /\ pass = "packing"
    /\ done["packing"] # {}
    /\ done["packing"] # Workers
    /\ switches.using_JBF_filtering
    /\ \E p \in Workers :
          /\ frame_buffers.temporal_filtered_frame_buffer[p].by = "TemporalFiltering"
          /\ frame_buffers.temporal_filtered_frame_buffer[p].color.by = "JointBilateralFiltering"

\* the entries a finished worker of the loop in progress has written are those
\* it computes from the buffers as they were when the loop started
WorkerOutputFromEntry(p) ==
    CASE pass = "RayGen_Shader" ->
            \A c \in GChannels :
                frame_buffers.g_buffer[c][p] = RayGen_Shader(at_entry.g_buffer, p, sight.hits[p], renders)[c][p]
      [] pass = "JointBilateralFiltering" /\ switches.using_JBF_filtering ->
            frame_buffers.spatial_filtered_frame_buffer[p]
                = JointBilateralFiltering_pixel(at_entry.g_buffer, p, switches.JBF_FilterKernelHalfSize)
      [] pass = "TemporalFiltering" /\ switches.using_temporal_filtering
                                    /\ switches.accessible_previous_frame ->
            frame_buffers.temporal_filtered_frame_buffer[p]
                = TemporalFiltering_pixel(at_entry.g_buffer, at_entry.previous_frame_g_buffer, p)
      [] pass = "packing" ->
            frame_buffers.frame_data[p] = packing_pixel(at_entry.temporal_filtered_frame_buffer, p)
      [] OTHER -> TRUE

\* entries whose worker has not run are as they were when the loop started
UntouchedFromEntry(p) ==
    /\ \A c \in GChannels : frame_buffers.g_buffer[c][p] = at_entry.g_buffer[c][p]
    /\ frame_buffers.spatial_filtered_frame_buffer[p] = at_entry.spatial_filtered_frame_buffer[p]
    /\ frame_buffers.temporal_filtered_frame_buffer[p] = at_entry.temporal_filtered_frame_buffer[p]
    /\ frame_buffers.frame_data[p] = at_entry.frame_data[p]

WritesOwnIndexOnly == \A a \in accesses : a.access = "write" => a.pixel = a.worker

NoReadOfAnothersWrite ==
    \A r \in accesses, w \in accesses :
        (r.access = "read" /\ w.access = "write" /\ r.worker # w.worker)
            => ~(r.buffer = w.buffer /\ r.pixel = w.pixel)

\* C17: within each pass of Render the worker for pixel (x,y) writes only
\* buffer entries at index (x,y) and no worker reads an entry that another
\* worker of the same pass writes, so (apart from draws from the shared random
\* source) every interleaving of the per-pixel workers produces the same
\* buffers.
C17_WorkersAreIndependent ==
    /\ WritesOwnIndexOnly
    /\ NoReadOfAnothersWrite
    /\ pass \in Loops =>
          /\ \A p \in done[pass] : WorkerOutputFromEntry(p)
          /\ \A p \in Workers \ done[pass] : UntouchedFromEntry(p)

\* the spatial loop after two workers, the second of which has read the
\* colour of the first one's pixel
C17_Witness ==
    /\ pass = "JointBilateralFiltering"
    /\ switches.using_JBF_filtering
    /\ Cardinality(done[pass]) = 2
    /\ \E r \in accesses, w \in accesses :
          /\ r.access = "read" /\ r.buffer = "g_buffer.pixel_color"
          /\ w.access = "write" /\ w.worker # r.worker /\ w.pixel = r.pixel

\* the grid has the given dimensions and one entry per pixel
HasViewportSize(grid, width, height) ==
    /\ grid.frame_width = width
    /\ grid.frame_height = height
    /\ grid.size = width * height

AllOfViewportSize(b, d, width, height) ==
    /\ \A c \in Channels : HasViewportSize(b.g_buffer[c], width, height)
    /\ HasViewportSize(b.spatial_filtered_frame_buffer, width, height)
    /\ HasViewportSize(b.temporal_filtered_frame_buffer, width, height)
    /\ d.frame_width = width
    /\ d.frame_height = height

\* a ResizeViewport call that changes the size of the viewport
SizeChangingResize == rn_op' = "ResizeViewport" /\ frame_image_final' # frame_image_final

\* C18: after any sequence of ResizeViewport and Render calls, the five
\* G-buffer channel grids, the spatial and temporal output buffers and the
\* denoiser's frame dimensions all have the width and height given to the most
\* recent size-changing ResizeViewport, each grid holding exactly width*height
\* entries, and that resize has cleared accessible_previous_frame.
C18_BuffersHaveViewportSize ==
    /\ [](frame_image_final # <<>> =>
            AllOfViewportSize(buffers, denoiser, frame_image_final[1], frame_image_final[2]))
    /\ [][SizeChangingResize =>
            /\ frame_image_final' \in WindowSizes
            /\ AllOfViewportSize(buffers', denoiser', frame_image_final'[1], frame_image_final'[2])
            /\ ~denoiser'.accessible_previous_frame]_vars
    /\ [][frame_image_final' # frame_image_final => rn_op' = "ResizeViewport"]_vars

\* a frame rendered at 2 x 2 after the viewport had been 70 x 66: the stored
\* previous frame still has the old size, every other buffer the new one
C18_Witness ==
    /\ rn_op = "Render"
    /\ frame_image_final = <<2, 2>>
    /\ buffers.previous_frame_g_buffer.pixel_color.size = 70 * 66
    /\ buffers.g_buffer.pixel_color.written_by = "JointBilateralFiltering"
    /\ AllOfViewportSize(buffers, denoiser, 2, 2)

\* a pixel of the 70 x 66 viewport that is at least 32 pixels from every border
FarFromBorder == <<35, 33>>

\* the last Render used, around that pixel, a window of size x size pixels
UsesWindow(HalfSize, size) ==
    /\ 2 * HalfSize = size - 1
    /\ frame_image_final = <<70, 66>> =>
          kernel_extent(FarFromBorder[1], FarFromBorder[2], denoiser.frame_width,
                        denoiser.frame_height, HalfSize) = <<size, size>>

SpatialOptionHonoured ==
    (rn_op = "Render" /\ chosen.JBF # 0)
        => denoiser.using_JBF_filtering /\ UsesWindow(denoiser.JBF_FilterKernelHalfSize, chosen.JBF)

TemporalOptionHonoured ==
    (rn_op = "Render" /\ chosen.temporal # 0)
        => /\ denoiser.using_temporal_filtering
           /\ UsesWindow(denoiser.Temporal_FilterKernelHalfSize, chosen.temporal)

\* C19 as stated: choosing the option 'Joint Bilateral Filtering with kernel
\* size: N pixels' (N = 15, 33, 65) or 'Temporal Filtering with kernel size: N
\* pixels' (N = 7, 15, 33) makes the next Render use, for pixels far enough
\* from the border, a square kernel window of exactly N x N pixels, i.e. a
\* kernel half-size of (N-1)/2.
C19_Original == SpatialOptionHonoured /\ TemporalOptionHonoured

\* what does hold: every option but the spatial filter's 15 pixels
OtherOptionsHonoured ==
    /\ chosen.JBF # 15 => SpatialOptionHonoured
    /\ TemporalOptionHonoured

\* the spatial filter's 15 pixels option gives a window of 7 x 7 pixels
FifteenGivesSeven ==
    (rn_op = "Render" /\ chosen.JBF = 15)
        => denoiser.using_JBF_filtering /\ UsesWindow(denoiser.JBF_FilterKernelHalfSize, 7)

(***************************************************************************)
(* Specification of the packing of one pixel: the temporal pass leaves a   *)
(* colour, the last loop of Render packs it into frame_data.               *)
(***************************************************************************)
ChannelValues ==
    {Q(-1, 2), Zero, Q(1, 510), Q(1, 255), Q(1, 2), Q(254, 255), One, Q(256, 255), R(2),
     PosInf, NegInf, NaN}

\* what an undefined conversion may produce
UndefinedBytes == {0, 128, 255}

\* one pixel is followed from the temporal pass to frame_data
Filtered ==
    /\ pk_op = "ResizeViewport"
    /\ \E c \in ChannelValues \X ChannelValues \X ChannelValues : filtered_color' = c
    /\ pk_op' = "TemporalFiltering"
    /\ UNCHANGED <<frame_data_entry, undefined_bytes>>
    /\ UNCHANGED <<aabb_vars, bvh_vars, dn_vars, rn_vars, wk_vars, it_vars>>

Packed ==
    /\ pk_op = "TemporalFiltering"
    /\ \E undefined \in UndefinedBytes \X UndefinedBytes \X UndefinedBytes \X {0} :
          /\ \A k \in 1..3 : ~IsNaN(filtered_color[k]) => undefined[k] = 0
          /\ undefined_bytes' = undefined
          /\ frame_data_entry' = packed_pixel(filtered_color, undefined)
    /\ pk_op' = "packing"
    /\ UNCHANGED filtered_color
    /\ UNCHANGED <<aabb_vars, bvh_vars, dn_vars, rn_vars, wk_vars, it_vars>>

PackingNext == Filtered \/ Packed

InitPacking == AABBInit /\ BVHInit /\ DenoiserInit /\ RendererInit /\ WorkersInit /\ PackingInit
    /\ IntegratorInit
SpecPacking == InitPacking /\ [][PackingNext]_vars

\* the number in bits 8 * k .. 8 * k + 7 of a word
ByteOf(w, k) ==
    w[8 * k + 1] + 2 * w[8 * k + 2] + 4 * w[8 * k + 3] + 8 * w[8 * k + 4]
    + 16 * w[8 * k + 5] + 32 * w[8 * k + 6] + 64 * w[8 * k + 7] + 128 * w[8 * k + 8]

\* a channel restricted to [0,1] and scaled to 0..255, rounded down
ExpectedByte(c) ==
    IF FLt(c, Zero) THEN 0
    ELSE IF FLt(One, c) THEN 255
    ELSE (255 * c[1]) \div c[2]

SameSizeResize ==
    /\ rn_op' = "ResizeViewport"
    /\ frame_image_final # <<>>
    /\ frame_image_final' = frame_image_final

\* a frame's temporal history is in place: the stored frame is the output of
\* an enabled temporal pass and the flag that lets the next pass read it is set
HistoryStored ==
    /\ denoiser.accessible_previous_frame
    /\ buffers.previous_frame_g_buffer.pixel_color.written_by = "TemporalFiltering"

\* C30: ResizeViewport called with the width and height the viewport already
\* has changes nothing: every buffer keeps its contents and
\* accessible_previous_frame keeps its value, so the ResizeViewport call that
\* the main loop makes before each frame never discards the temporal history
\* while the window size is stable.
C30_SameSizeResizeChangesNothing ==
    /\ [][SameSizeResize => UNCHANGED <<denoiser, buffers, settings, frame_image_final>>]_vars
    /\ [][(SameSizeResize /\ HistoryStored) => HistoryStored']_vars

\* the last call was a ResizeViewport and the history of the frame rendered
\* before it is still stored and readable: the call had the viewport's size
C30_Witness ==
    /\ rn_op = "ResizeViewport"
    /\ HistoryStored
    /\ buffers.g_buffer.pixel_color.written_by = "TemporalFiltering"
    /\ frame_image_final = <<70, 66>>

(***************************************************************************)
(* The temporal options of the control panel: the buttons of the temporal  *)
(* group are pressed in any order between frames.                          *)
(***************************************************************************)
\* the temporal buttons this specification presses, named by the option they switch on
TemporalPressedOptions ==
    {"disable_TemporalFiltering", "using_temporal_kernel_7", "using_temporal_kernel_15",
     "using_temporal_variance_tolerance_1", "using_temporal_variance_tolerance_2",
     "using_temporal_current_frame_weighting_20", "using_temporal_current_frame_weighting_50"}
TemporalButtons == {button \in Buttons : \E f \in DOMAIN button : button[f] /\ f \in TemporalPressedOptions}

\* OnUIRender: one button of the temporal group is pressed
OnUIRender_temporal_button == \E button \in TemporalButtons : OnUIRender_pressed(button)

SettingsNext == ResizeViewport \/ OnUIRender_temporal_button \/ Render

InitSettings == AABBInit /\ BVHInit /\ DenoiserInit /\ RendererInit /\ WorkersInit /\ PackingInit
    /\ IntegratorInit
SpecSettings == InitSettings /\ [][SettingsNext]_vars

temporal_kernel_flags == {"using_temporal_kernel_7", "using_temporal_kernel_15", "using_temporal_kernel_33"}
temporal_tolerance_flags ==
    {"using_temporal_variance_tolerance_1", "using_temporal_variance_tolerance_2",
     "using_temporal_variance_tolerance_3"}
temporal_weighting_flags ==
    {"using_temporal_current_frame_weighting_5", "using_temporal_current_frame_weighting_10",
     "using_temporal_current_frame_weighting_20", "using_temporal_current_frame_weighting_50"}

\* the flags of a group that are set
SetFlags(group) == {f \in group : settings[f]}

\* the last step was a Render that ran with disable_TemporalFiltering set
DisabledRender == rn_op = "Render" /\ settings.disable_TemporalFiltering

AtMostOnePerGroup ==
    /\ Cardinality(SetFlags(temporal_kernel_flags)) <= 1
    /\ Cardinality(SetFlags(temporal_tolerance_flags)) <= 1
    /\ Cardinality(SetFlags(temporal_weighting_flags)) <= 1

\* C29: after a Render call that runs with disable_TemporalFiltering set, every
\* temporal option flag of the settings (the three kernel-size flags, the three
\* variance-tolerance flags and the four current-frame-weighting flags) is
\* false, and after any Render at most one flag of each group is true.
C29_Original ==
    /\ DisabledRender =>
          SetFlags(temporal_kernel_flags \cup temporal_tolerance_flags \cup temporal_weighting_flags) = {}
    /\ rn_op = "Render" => AtMostOnePerGroup

\* what holds of the flags after a Render with temporal filtering disabled:
\* all are false except that of the 50% weighting, which keeps its value
DisabledRenderClearsAllBut50 ==
    DisabledRender =>
        SetFlags(temporal_kernel_flags \cup temporal_tolerance_flags \cup temporal_weighting_flags)
            \subseteq {"using_temporal_current_frame_weighting_50"}

\* after any Render at most one flag of each group is set
RenderLeavesOnePerGroup == rn_op = "Render" => AtMostOnePerGroup

\* a Render with temporal filtering disabled has left the 50% flag set
StaleWeightingFlag == DisabledRender /\ settings.using_temporal_current_frame_weighting_50

(***************************************************************************)
(* Claims about the variance clipping of the temporal pass.                *)
(***************************************************************************)
\* the kernel window of a pixel, clipped to the viewport
Window(x, y) == KernelPixels(x, y, frame_width, frame_height)

\* the arithmetic mean of the current frame's colours over the window
WindowMean(x, y) == kernel_mean(dn_entry.g_buffer.pixel_color, Window(x, y))

\* the variance about that mean of the current frame's colours over the window
VarianceAboutMean(x, y) ==
    kernel_mean_square(dn_entry.g_buffer.pixel_color, WindowMean(x, y), Window(x, y))

\* the mean square difference between the window's colours and the colour of
\* the pixel at its centre
MeanSquareAboutCentre(x, y) ==
    LET cells == Window(x, y)
        centre == At(dn_entry.g_buffer.pixel_color, x, y)
    IN  [c \in 1..3 |->
            FDiv(kernel_variance_sum(dn_entry.g_buffer.pixel_color, centre, cells, Len(cells))[c],
                 R(Len(cells)))]

\* what the pass multiplies by the tolerance to get the half-width of the
\* clamping interval
ClampDeviation(x, y) ==
    kernel_deviation(dn_entry.g_buffer.pixel_color, At(dn_entry.g_buffer.pixel_color, x, y),
                     Window(x, y))

\* the output of a pixel with history is the blend of its colour with the
\* fetched previous colour clamped to mean -/+ tolerance * deviation
OutputIsBlendOfClamped(x, y) ==
    LET q == PixelUnder(Reprojected(x, y))
        before == At(dn_entry.previous.pixel_color, q[1], q[2])
        mean == WindowMean(x, y)
        dev == ClampDeviation(x, y)
        clamped == [c \in 1..3 |-> ClampChannel(before[c], FSub(mean[c], FMul(tolerance, dev[c])),
                                                FAdd(mean[c], FMul(tolerance, dev[c])))]
        now == At(dn_entry.g_buffer.pixel_color, x, y)
    IN  At(filtered_frame_buffer, x, y) =
            [c \in 1..3 |-> FAdd(FMul(FSub(One, dn_entry.weighting), clamped[c]),
                                 FMul(dn_entry.weighting, now[c]))]

\* C22: when a pixel is blended with history, the fetched previous colour is
\* first clamped per channel to [mean - k*stddev, mean + k*stddev], where
\* k = tolerance and mean and stddev are the arithmetic mean and the standard
\* deviation about that mean of the current frame's spatially filtered colours
\* over the temporal kernel window clipped to the viewport.  (The deviation is
\* compared by its square, the variance.)
C22_Original ==
    WithHistory =>
        \A p \in Pixels :
            HasHistory(p[1], p[2]) =>
                /\ OutputIsBlendOfClamped(p[1], p[2])
                /\ \A c \in 1..3 :
                      FMul(ClampDeviation(p[1], p[2])[c], ClampDeviation(p[1], p[2])[c])
                          = VarianceAboutMean(p[1], p[2])[c]

\* what the pass does: the interval is centred on the window's mean, and its
\* half-width is the tolerance times the root of the mean square difference
\* from the colour of the centre pixel
ClampUsesDeviationAboutCentre ==
    WithHistory =>
        \A p \in Pixels :
            HasHistory(p[1], p[2]) =>
                /\ OutputIsBlendOfClamped(p[1], p[2])
                /\ \A c \in 1..3 :
                      FMul(ClampDeviation(p[1], p[2])[c], ClampDeviation(p[1], p[2])[c])
                          = MeanSquareAboutCentre(p[1], p[2])[c]

\* a blended pixel whose previous colour lies above the interval the pass
\* uses, in a window where the two measures of spread differ
ClampedWhereSpreadsDiffer ==
    /\ WithHistory
    /\ \E p \in Pixels :
          /\ HasHistory(p[1], p[2])
          /\ MeanSquareAboutCentre(p[1], p[2])[1] # VarianceAboutMean(p[1], p[2])[1]
          /\ LET q == PixelUnder(Reprojected(p[1], p[2]))
             IN  FGt(At(dn_entry.previous.pixel_color, q[1], q[2])[1],
                     FAdd(WindowMean(p[1], p[2])[1],
                          FMul(tolerance, ClampDeviation(p[1], p[2])[1])))

(***************************************************************************)
(* Claims about the stored previous frame and the indices of the temporal  *)
(* pass.                                                                   *)
(***************************************************************************)
\* every channel of the stored previous frame has the given dimensions
StoredFrameHasSize(b, width, height) ==
    \A c \in Channels : HasViewportSize(b.previous_frame_g_buffer[c], width, height)

\* a Render whose temporal pass reads the stored previous frame
RenderReadsHistory ==
    /\ rn_op' = "Render"
    /\ denoiser.accessible_previous_frame
    /\ denoiser'.using_temporal_filtering

\* coordinates a reprojected pixel position can have along an axis of the
\* given length: around both borders, in the middle, and not finite
Coordinates(length) ==
    {R(-1), Q(-1, 2), Zero, Q(1, 2), One, Q(length, 2), FSub(R(length), One),
     FSub(R(length), Q(1, 2)), R(length), FAdd(R(length), Q(1, 2)), PosInf, NegInf, NaN}

\* the accesses of lines 278 and 280 made for an accepted position are inside the grid
PreviousIndexInside(grid, pp) ==
    /\ int_cast(pp[1]) \in 0..(grid.frame_width - 1)
    /\ int_cast(pp[2]) \in 0..(grid.frame_height - 1)
    /\ buffer_index(grid, int_cast(pp[1]), int_cast(pp[2])) \in 0..(grid.size - 1)

\* every position the test of line 276 accepts is read inside the stored frame
ReprojectedIndicesInside(b, width, height) ==
    \A px \in Coordinates(width), py \in Coordinates(height) :
        inside_viewport(<<px, py>>, width, height) =>
            /\ PreviousIndexInside(b.previous_frame_g_buffer.primitive_id, <<px, py>>)
            /\ PreviousIndexInside(b.previous_frame_g_buffer.pixel_color, <<px, py>>)

\* the pixels at the corners and in the middle of the viewport
CornerAndMiddlePixels(width, height) == {0, width \div 2, width - 1} \X {0, height \div 2, height - 1}

\* the four corners of the kernel window of a pixel are read inside the grid
WindowInside(grid, k) ==
    /\ k.kernel_left \in 0..(grid.frame_width - 1) /\ k.kernel_right \in 0..(grid.frame_width - 1)
    /\ k.kernel_bottom \in 0..(grid.frame_height - 1) /\ k.kernel_top \in 0..(grid.frame_height - 1)
    /\ k.kernel_left <= k.kernel_right /\ k.kernel_bottom <= k.kernel_top
    /\ buffer_index(grid, k.kernel_left, k.kernel_bottom) \in 0..(grid.size - 1)
    /\ buffer_index(grid, k.kernel_right, k.kernel_top) \in 0..(grid.size - 1)

KernelIndicesInside(b, d, width, height) ==
    \A p \in CornerAndMiddlePixels(width, height) :
        WindowInside(b.g_buffer.pixel_color,
                     kernel_bounds(p[1], p[2], d.frame_width, d.frame_height,
                                   d.Temporal_FilterKernelHalfSize))

\* C28: whenever TemporalFiltering reads the stored previous frame
\* (accessible_previous_frame is true), the stored frame's buffers have the
\* current viewport's width and height, so every previous-frame index derived
\* from the reprojected pixel position, and every kernel-window index, lies
\* inside its buffer.
C28_StoredFrameFitsViewport ==
    /\ [](denoiser.accessible_previous_frame =>
            /\ frame_image_final # <<>>
            /\ StoredFrameHasSize(buffers, frame_image_final[1], frame_image_final[2])
            /\ denoiser.frame_width = frame_image_final[1]
            /\ denoiser.frame_height = frame_image_final[2])
    /\ [][RenderReadsHistory =>
            /\ StoredFrameHasSize(buffers, denoiser'.frame_width, denoiser'.frame_height)
            /\ ReprojectedIndicesInside(buffers, denoiser'.frame_width, denoiser'.frame_height)
            /\ KernelIndicesInside(buffers, denoiser', denoiser'.frame_width, denoiser'.frame_height)]_vars

\* a frame whose temporal pass read the history of the frame before it, at
\* 70 x 66 with the largest kernel
C28_Witness ==
    /\ rn_op = "Render"
    /\ last_frame.accessible_on_entry
    /\ last_frame.enabled
    /\ frame_image_final = <<70, 66>>
    /\ denoiser.Temporal_FilterKernelHalfSize = 16
    /\ StoredFrameHasSize(buffers, 70, 66)
    /\ buffers.previous_frame_g_buffer.pixel_color.written_by = "TemporalFiltering"

(***************************************************************************)
(* The shape of the trees build_BVH produces: the constructor is run on    *)
(* rows of up to MaxBuildPrims primitives.                                 *)
(***************************************************************************)
MaxBuildPrims == 5

\* a triangle standing at x = i
Slat(i) == TrianglePrimitive(VecI(i, 0, 0), VecI(i + 1, 0, 0), VecI(i, 1, 0))

\* the primitives of the rows; a row may hold a primitive twice, so that the
\* sort meets equal keys
BuildCatalogue == {Slat(0), Slat(2), Slat(4)}
BuildScenes ==
    {prims \in UNION {[1..n -> BuildCatalogue] : n \in 1..MaxBuildPrims} :
        \A e \in BuildCatalogue : Cardinality({i \in 1..Len(prims) : prims[i] = e}) <= 2}

\* BVH::BVH(entities) on a row
Build_BVH ==
    /\ bvh_op = "none"
    /\ \E prims \in BuildScenes : \E tree \in BVH_roots(prims) :
        /\ m_primitives' = prims
        /\ root' = tree
    /\ bvh_op' = "BVH"
    /\ UNCHANGED <<ray, record, payload, aabb_vars, dn_vars, rn_vars, wk_vars, pk_vars, it_vars>>

BuildNext == Build_BVH

InitBuild == AABBInit /\ BVHInit /\ DenoiserInit /\ RendererInit /\ WorkersInit /\ PackingInit
    /\ IntegratorInit
SpecBuild == InitBuild /\ [][BuildNext]_vars

\* the number of primitives under a node
Primitives(node) == Len(LeafEntities(node))

\* the depths of the leaves under a node, the node being at the given depth
RECURSIVE LeafDepths(_, _)
LeafDepths(node, depth) ==
    IF IsLeaf(node) THEN {depth}
    ELSE LeafDepths(node.left, depth + 1) \cup LeafDepths(node.right, depth + 1)

\* every internal node under a node gives floor(k/2) of its k primitives to
\* its left subtree and the others to its right subtree
RECURSIVE SplitsAtMedian(_)
SplitsAtMedian(node) ==
    IsLeaf(node) \/
        /\ Primitives(node) >= 2
        /\ Primitives(node.left) = Primitives(node) \div 2
        /\ Primitives(node.right) = Primitives(node) - (Primitives(node) \div 2)
        /\ SplitsAtMedian(node.left)
        /\ SplitsAtMedian(node.right)

\* ceil(log2 n): the least d with 2^d >= n
CeilLog2(n) == CHOOSE d \in 0..n : 2^d >= n /\ \A e \in 0..(d - 1) : 2^e < n

\* C27: at every internal node that build_BVH creates from k >= 2 primitives
\* the left subtree holds floor(k/2) primitives and the right subtree the
\* remaining k - floor(k/2), so for n primitives the tree depth is
\* ceil(log2 n) and the depths of any two leaves differ by at most one.
C27_MedianSplitBalancesTree ==
    bvh_op = "BVH" =>
        /\ Primitives(root) = Len(m_primitives)
        /\ SplitsAtMedian(root)
        /\ \A d \in LeafDepths(root, 0) : d <= CeilLog2(Len(m_primitives))
        /\ CeilLog2(Len(m_primitives)) \in LeafDepths(root, 0)
        /\ \A d, e \in LeafDepths(root, 0) : d - e <= 1

\* a tree of five primitives: two on the left, three on the right, leaves at
\* depths 2 and 3, built from a row the sort had to reorder
C27_Witness ==
    /\ bvh_op = "BVH"
    /\ Len(m_primitives) = 5
    /\ Primitives(root.left) = 2
    /\ Primitives(root.right) = 3
    /\ Primitives(root.right.left) = 1
    /\ Primitives(root.right.right) = 2
    /\ LeafDepths(root, 0) = {2, 3}
    /\ LeafEntities(root) # <<1, 2, 3, 4, 5>>

(***************************************************************************)
(* The Whitted-style ray caster (BVH Ray Tracer, Renderer.cpp): one camera *)
(* ray is evaluated at a time; call_stack holds the activation records of  *)
(* cast_Whitted_ray, the innermost call last.                              *)
(***************************************************************************)
max_bounce_depth == 5
sky_color == Vec(Q(1, 5), Q(7, 10), Q(4, 5))

\* the directions the camera hands out before they are normalized
CameraRayDirections == {VecI(0, 0, 2)}
\* the surface normals of the scene, along the rays
SurfaceNormals == {VecI(0, 0, 1), VecI(0, 0, -1)}
\* the values accurate_fresnel_reflectance takes in the scene
Reflectances == {Zero, One}
\* the colours the Blinn-Phong shading of a Diffuse_Glossy surface gives
BlinnPhongColors == {White}

\* Whitted::normalize: v itself when v is the zero vector
Whitted_normalize(v) ==
    IF FGt(glm_dot(v, v), Zero)
    THEN VScale(FDiv(One, FSqrt(glm_dot(v, v))), v)
    ELSE v

mirror_reflection_direction(incident_ray_direction, surface_normal) ==
    VSub(incident_ray_direction,
         VScale(FMul(R(2), glm_dot(incident_ray_direction, surface_normal)), surface_normal))

\* snell_refraction_direction at normal incidence (the ray goes straight on),
\* or the zero vector it returns on total internal reflection
snell_refraction_direction(incident_ray_direction, total_internal_reflection) ==
    IF total_internal_reflection THEN ZeroVec ELSE incident_ray_direction

\* the unit directions of the scene's rays, and the zero vector
WhittedDirections == {ZeroVec, VecI(0, 0, 1), VecI(0, 0, -1)}
\* the colours a ray of the scene can return
WhittedColors == {ZeroVec, sky_color, White}

\* line 112: the normalized direction of the camera ray, per camera direction
camera_ray_direction ==
    [direction \in CameraRayDirections |-> Whitted_normalize(direction)]

\* lines 137 and 149-151: reflected_ray_direction, per direction of the
\* incident ray and surface normal
reflected_ray_direction ==
    [m_direction \in WhittedDirections, normal_at_intersection \in SurfaceNormals |->
        Whitted_normalize(mirror_reflection_direction(m_direction, normal_at_intersection))]

\* lines 157-159: refracted_ray_direction, per direction of the incident ray
\* and outcome of Snell's law
refracted_ray_direction ==
    [m_direction \in WhittedDirections, total_internal_reflection \in BOOLEAN |->
        Whitted_normalize(snell_refraction_direction(m_direction, total_internal_reflection))]

\* lines 144-145: the colour of the reflected ray times the reflectance
Reflective_ray_color ==
    [reflectance \in Reflectances, color \in WhittedColors |-> VScale(reflectance, color)]

\* line 166: reflectance * reflected_ray_color + (1 - reflectance) * refracted_ray_color
Reflective_Refractive_ray_color ==
    [reflectance \in Reflectances, reflected \in WhittedColors, refracted \in WhittedColors |->
        VAdd(VScale(reflectance, reflected), VScale(FSub(One, reflectance), refracted))]

\* the activation record of cast_Whitted_ray(ray, has_already_bounced)
WhittedCall(m_direction, has_already_bounced) ==
    [m_direction |-> m_direction, has_already_bounced |-> has_already_bounced,
     at |-> "entry", reflected_ray_color |-> ZeroVec, ray_color |-> ZeroVec]

InnerCall == call_stack[Len(call_stack)]
AtEntry == call_stack # <<>> /\ InnerCall.at = "entry"
Replaced(stack, call) == [stack EXCEPT ![Len(stack)] = call]
Returning(call, color) == [call EXCEPT !.at = "return", !.ray_color = color]

\* the test of lines 123-126, with another limit
no_energy_received_beyond(call, limit) ==
    (call.has_already_bounced > limit) \/ (call.m_direction = ZeroVec)

\* a test that lets one more bounce through
no_energy_received_one_late(call) == no_energy_received_beyond(call, max_bounce_depth + 1)

\* the test of lines 123-126
no_energy_received(call) == no_energy_received_beyond(call, max_bounce_depth)

\* RayGen_Shader, line 112: the camera ray enters with a bounce count of 0
Whitted_RayGen_Shader ==
    /\ call_stack = <<>>
    /\ \E direction \in CameraRayDirections :
           call_stack' = <<WhittedCall(camera_ray_direction[direction], 0)>>
    /\ radiance' = NoRadiance
    /\ traversals' = {}
    /\ it_op' = "RayGen_Shader"
    /\ UNCHANGED outer_calls
    /\ UNCHANGED <<aabb_vars, bvh_vars, dn_vars, rn_vars, wk_vars, pk_vars>>

\* lines 123-126: no energy received
cast_Whitted_ray_returns_zero ==
    /\ AtEntry
    /\ no_energy_received(InnerCall)
    /\ call_stack' = Replaced(call_stack, Returning(InnerCall, ZeroVec))
    /\ it_op' = "no energy received"
    /\ UNCHANGED outer_calls
    /\ UNCHANGED <<radiance, traversals>>
    /\ UNCHANGED <<aabb_vars, bvh_vars, dn_vars, rn_vars, wk_vars, pk_vars>>

\* lines 127-129 with no intersection: ray_color stays sky_color
cast_Whitted_ray_miss ==
    /\ AtEntry
    /\ ~no_energy_received(InnerCall)
    /\ traversals' = traversals \cup {InnerCall.has_already_bounced}
    /\ call_stack' = Replaced(call_stack, Returning(InnerCall, sky_color))
    /\ it_op' = "miss"
    /\ UNCHANGED outer_calls
    /\ UNCHANGED radiance
    /\ UNCHANGED <<aabb_vars, bvh_vars, dn_vars, rn_vars, wk_vars, pk_vars>>

\* lines 165-219, default: Diffuse_Glossy ends the path
cast_Whitted_ray_Diffuse_Glossy ==
    /\ AtEntry
    /\ ~no_energy_received(InnerCall)
    /\ traversals' = traversals \cup {InnerCall.has_already_bounced}
    /\ \E color \in BlinnPhongColors :
           call_stack' = Replaced(call_stack, Returning(InnerCall, color))
    /\ it_op' = "Diffuse_Glossy"
    /\ UNCHANGED outer_calls
    /\ UNCHANGED radiance
    /\ UNCHANGED <<aabb_vars, bvh_vars, dn_vars, rn_vars, wk_vars, pk_vars>>

\* lines 135-146, case Reflective: the call for the reflected ray
cast_Whitted_ray_Reflective ==
    /\ AtEntry
    /\ ~no_energy_received(InnerCall)
    /\ traversals' = traversals \cup {InnerCall.has_already_bounced}
    /\ \E normal_at_intersection \in SurfaceNormals :
           call_stack' =
               Append(Replaced(call_stack, [InnerCall EXCEPT !.at = "Reflective"]),
                      WhittedCall(reflected_ray_direction[InnerCall.m_direction,
                                                         normal_at_intersection],
                                  InnerCall.has_already_bounced + 1))
    /\ it_op' = "Reflective"
    /\ UNCHANGED outer_calls
    /\ UNCHANGED radiance
    /\ UNCHANGED <<aabb_vars, bvh_vars, dn_vars, rn_vars, wk_vars, pk_vars>>

\* lines 147-166, case Reflective_Refractive: the call for the reflected ray
cast_Whitted_ray_Reflective_Refractive ==
    /\ AtEntry
    /\ ~no_energy_received(InnerCall)
    /\ traversals' = traversals \cup {InnerCall.has_already_bounced}
    /\ \E normal_at_intersection \in SurfaceNormals :
           call_stack' =
               Append(Replaced(call_stack, [InnerCall EXCEPT !.at = "reflected_ray_color"]),
                      WhittedCall(reflected_ray_direction[InnerCall.m_direction,
                                                         normal_at_intersection],
                                  InnerCall.has_already_bounced + 1))
    /\ it_op' = "Reflective_Refractive"
    /\ UNCHANGED outer_calls
    /\ UNCHANGED radiance
    /\ UNCHANGED <<aabb_vars, bvh_vars, dn_vars, rn_vars, wk_vars, pk_vars>>

\* what the caller does with the colour a recursive call returned
\* (lines 144-145, 161-162 and 164-166)
Resumed(caller, color, reflectance, total_internal_reflection) ==
    IF caller.at = "Reflective"
    THEN <<Returning(caller, Reflective_ray_color[reflectance, color])>>
    ELSE IF caller.at = "reflected_ray_color"
    THEN <<[caller EXCEPT !.at = "refracted_ray_color", !.reflected_ray_color = color],
           WhittedCall(refracted_ray_direction[caller.m_direction, total_internal_reflection],
                       caller.has_already_bounced + 1)>>
    ELSE <<Returning(caller, Reflective_Refractive_ray_color[
                                 reflectance, caller.reflected_ray_color, color])>>

\* a recursive call returns to its caller
cast_Whitted_ray_returns ==
    /\ Len(call_stack) >= 2
    /\ InnerCall.at = "return"
    /\ \E reflectance \in Reflectances, total_internal_reflection \in BOOLEAN :
           call_stack' = SubSeq(call_stack, 1, Len(call_stack) - 2) \o
                         Resumed(call_stack[Len(call_stack) - 1], InnerCall.ray_color,
                                 reflectance, total_internal_reflection)
    /\ it_op' = "return"
    /\ UNCHANGED outer_calls
    /\ UNCHANGED <<radiance, traversals>>
    /\ UNCHANGED <<aabb_vars, bvh_vars, dn_vars, rn_vars, wk_vars, pk_vars>>

\* the call for the camera ray returns to RayGen_Shader
Whitted_RayGen_Shader_receives ==
    /\ Len(call_stack) = 1
    /\ InnerCall.at = "return"
    /\ radiance' = InnerCall.ray_color
    /\ call_stack' = <<>>
    /\ it_op' = "color_rgba"
    /\ UNCHANGED outer_calls
    /\ UNCHANGED traversals
    /\ UNCHANGED <<aabb_vars, bvh_vars, dn_vars, rn_vars, wk_vars, pk_vars>>

WhittedNext ==
    \/ Whitted_RayGen_Shader
    \/ cast_Whitted_ray_returns_zero
    \/ cast_Whitted_ray_miss
    \/ cast_Whitted_ray_Diffuse_Glossy
    \/ cast_Whitted_ray_Reflective
    \/ cast_Whitted_ray_Reflective_Refractive
    \/ cast_Whitted_ray_returns
    \/ Whitted_RayGen_Shader_receives

InitWhitted == AABBInit /\ BVHInit /\ DenoiserInit /\ RendererInit /\ WorkersInit /\ PackingInit
    /\ IntegratorInit
SpecWhitted == InitWhitted /\ [][WhittedNext]_vars
\* the thread that evaluates the ray keeps running
SpecWhittedRuns == SpecWhitted /\ WF_vars(WhittedNext)

\* the bounce counts on the call stack: 0 for the camera ray, one more for
\* every call made from within a call
CountsRiseByOne ==
    \A i \in 1..Len(call_stack) : call_stack[i].has_already_bounced = i - 1

\* a call entered with the zero direction or a count above max_bounce_depth
\* returns the zero colour, makes no call and traces nothing
ExhaustedCallReturnsZero ==
    (/\ AtEntry
     /\ (InnerCall.has_already_bounced > max_bounce_depth \/ InnerCall.m_direction = ZeroVec))
    => /\ Len(call_stack') = Len(call_stack)
       /\ SubSeq(call_stack', 1, Len(call_stack) - 1) = SubSeq(call_stack, 1, Len(call_stack) - 1)
       /\ call_stack'[Len(call_stack)].at = "return"
       /\ call_stack'[Len(call_stack)].ray_color = ZeroVec
       /\ traversals' = traversals

\* C25: cast_Whitted_ray returns zero radiance without traversing the BVH or
\* recursing when the ray direction is the zero vector or has_already_bounced
\* exceeds max_bounce_depth, and every recursive call passes
\* has_already_bounced + 1, so the evaluation of any camera ray terminates
\* and no ray with a bounce count above max_bounce_depth is ever shaded.
C25_WhittedRecursionIsBounded ==
    /\ [][ExhaustedCallReturnsZero]_vars
    /\ [](CountsRiseByOne /\ traversals \subseteq 0..max_bounce_depth)
    /\ (call_stack # <<>>) ~> (call_stack = <<>> /\ radiance # NoRadiance)

\* the call of count max_bounce_depth + 1, made for a refracted ray that is
\* not the zero vector, has just returned zero at the end of the deepest
\* chain of calls, every count up to max_bounce_depth having been traced
C25_Witness ==
    /\ it_op = "no energy received"
    /\ Len(call_stack) = max_bounce_depth + 2
    /\ InnerCall.has_already_bounced = max_bounce_depth + 1
    /\ InnerCall.m_direction # ZeroVec
    /\ InnerCall.at = "return"
    /\ call_stack[max_bounce_depth + 1].at = "refracted_ray_color"
    /\ traversals = 0..max_bounce_depth

(***************************************************************************)
(* The path tracer (Denoiser, Renderer.cpp): cast_path and shading for one *)
(* camera ray at a time.  call_stack holds the activation records of       *)
(* shading, the innermost call last; shading has no depth limit, so only   *)
(* the MaxCalls innermost records are kept and outer_calls tells that      *)
(* older calls are pending.                                                *)
(***************************************************************************)
MaxCalls == 3
RR_survival_probability == Q(4, 5)
night_sky == Vec(Q(12, 255), Q(20, 255), Q(69, 255))

\* Whitted::get_random_float_0_1: uniform on [0, 1], taken at the midpoints
\* of five cells of equal probability
DrawSequence == <<Q(1, 10), Q(3, 10), Q(5, 10), Q(7, 10), Q(9, 10)>>
Draws == {DrawSequence[i] : i \in 1..Len(DrawSequence)}

\* the materials of the scene: the area light and a diffuse wall
AreaLightMaterial == [emitting |-> TRUE, m_emission |-> VecI(2, 2, 2)]
DiffuseMaterial == [emitting |-> FALSE, m_emission |-> ZeroVec]
HitMaterials == {AreaLightMaterial, DiffuseMaterial}
\* the values radiance_direct takes (the light sample is occluded or not)
DirectRadiances == {ZeroVec, VecI(1, 1, 1)}
\* the values BRDF * dot(W_in, normal) / PDF takes
Throughputs == {Zero, Q(1, 2), Q(4, 5)}

\* the test of line 358, for the draw made there; a test that lets every
\* path continue comes first
survives_always(draw) == TRUE
survives(draw) == FLt(draw, RR_survival_probability)

\* line 373 without the division by the survival probability
radiance_indirect_undivided(draw, deeper_radiance, throughput) ==
    IF survives(draw) THEN VScale(throughput, deeper_radiance) ELSE ZeroVec

\* lines 357-377 when the bounce ray hits a surface that does not emit:
\* shading(deeper) * BRDF * dot / PDF / RR_survival_probability, or zero when
\* the draw ends the path
radiance_indirect(draw, deeper_radiance, throughput) ==
    IF survives(draw)
    THEN VScale(FDiv(throughput, RR_survival_probability), deeper_radiance)
    ELSE ZeroVec

\* the colours shading can return through the given number of nested calls,
\* none of them made for the area light
RECURSIVE ReturnedRadiances(_)
ReturnedRadiances(calls) ==
    IF calls = 1
    THEN {VAdd(direct, ZeroVec) : direct \in DirectRadiances}
    ELSE ReturnedRadiances(calls - 1) \cup
         {VAdd(direct, radiance_indirect(draw, deeper, throughput)) :
              direct \in DirectRadiances, draw \in Draws, throughput \in Throughputs,
              deeper \in ReturnedRadiances(calls - 1)}

\* line 379 when shading made no call: radiance_direct + radiance_indirect
\* with radiance_indirect still zero, per value of radiance_direct
radiance_without_call == [direct \in DirectRadiances |-> VAdd(direct, ZeroVec)]

\* lines 373 and 379 when shading called itself: radiance_direct +
\* radiance_indirect, per value of radiance_direct, draw, throughput and
\* colour returned by the call
radiance_with_call ==
    [direct \in DirectRadiances, draw \in Draws, throughput \in Throughputs,
     deeper \in ReturnedRadiances(MaxCalls) |->
        VAdd(direct, radiance_indirect(draw, deeper, throughput))]

\* the activation record of shading(record, W_out)
ShadingCall(material) ==
    [at |-> "shading", emitting |-> material.emitting, m_emission |-> material.m_emission,
     radiance_direct |-> ZeroVec, draw |-> Zero, throughput |-> Zero,
     deeper_radiance |-> ZeroVec, ray_color |-> ZeroVec]

InShading(stage) == call_stack # <<>> /\ InnerCall.at = stage
Shaded(call, color) == [call EXCEPT !.at = "shaded", !.ray_color = color]
\* the records kept after one more call
Called(stack, call) ==
    IF Len(stack) < MaxCalls THEN Append(stack, call) ELSE Append(Tail(stack), call)

\* a cast_path that returns black when its ray hits nothing
cast_path_miss_black ==
    /\ call_stack = <<>>
    /\ radiance' = ZeroVec
    /\ traversals' = {}
    /\ it_op' = "cast_path miss"
    /\ UNCHANGED <<call_stack, outer_calls>>
    /\ UNCHANGED <<aabb_vars, bvh_vars, dn_vars, rn_vars, wk_vars, pk_vars>>

\* RayGen_Shader calls cast_path, whose ray hits nothing (lines 306-310)
cast_path_miss ==
    /\ call_stack = <<>>
    /\ radiance' = night_sky
    /\ traversals' = {}
    /\ it_op' = "cast_path miss"
    /\ UNCHANGED <<call_stack, outer_calls>>
    /\ UNCHANGED <<aabb_vars, bvh_vars, dn_vars, rn_vars, wk_vars, pk_vars>>

\* RayGen_Shader calls cast_path, whose ray hits a surface (lines 289-303)
cast_path_hit ==
    /\ call_stack = <<>>
    /\ \E material \in HitMaterials : call_stack' = <<ShadingCall(material)>>
    /\ radiance' = NoRadiance
    /\ outer_calls' = FALSE
    /\ traversals' = {}
    /\ it_op' = "cast_path"
    /\ UNCHANGED <<aabb_vars, bvh_vars, dn_vars, rn_vars, wk_vars, pk_vars>>

\* lines 316-327: direct emission
shading_emission ==
    /\ InShading("shading")
    /\ InnerCall.emitting
    /\ call_stack' = Replaced(call_stack, Shaded(InnerCall, InnerCall.m_emission))
    /\ it_op' = "GetEmission"
    /\ UNCHANGED <<radiance, traversals, outer_calls>>
    /\ UNCHANGED <<aabb_vars, bvh_vars, dn_vars, rn_vars, wk_vars, pk_vars>>

\* lines 336-355: direct illumination
shading_direct ==
    /\ InShading("shading")
    /\ ~InnerCall.emitting
    /\ \E direct \in DirectRadiances :
           call_stack' = Replaced(call_stack,
               [InnerCall EXCEPT !.at = "roulette", !.radiance_direct = direct])
    /\ it_op' = "radiance_direct"
    /\ UNCHANGED <<radiance, traversals, outer_calls>>
    /\ UNCHANGED <<aabb_vars, bvh_vars, dn_vars, rn_vars, wk_vars, pk_vars>>

\* what shading returns when it makes no call: radiance_direct + radiance_indirect
\* with radiance_indirect still zero (lines 357 and 379)
Unlit(call, draw) ==
    Shaded([call EXCEPT !.draw = draw], radiance_without_call[call.radiance_direct])

\* line 358: the draw ends the path
shading_roulette_ends ==
    /\ InShading("roulette")
    /\ \E draw \in Draws :
           /\ ~survives(draw)
           /\ call_stack' = Replaced(call_stack, Unlit(InnerCall, draw))
    /\ it_op' = "roulette"
    /\ UNCHANGED <<radiance, traversals, outer_calls>>
    /\ UNCHANGED <<aabb_vars, bvh_vars, dn_vars, rn_vars, wk_vars, pk_vars>>

\* lines 358-367: the path continues and the bounce ray hits nothing
shading_bounce_miss ==
    /\ InShading("roulette")
    /\ \E draw \in Draws :
           /\ survives(draw)
           /\ call_stack' = Replaced(call_stack, Unlit(InnerCall, draw))
    /\ it_op' = "bounce miss"
    /\ UNCHANGED <<radiance, traversals, outer_calls>>
    /\ UNCHANGED <<aabb_vars, bvh_vars, dn_vars, rn_vars, wk_vars, pk_vars>>

\* lines 358-367: the path continues and the bounce ray hits the area light
shading_bounce_hits_light ==
    /\ InShading("roulette")
    /\ \E draw \in Draws :
           /\ survives(draw)
           /\ call_stack' = Replaced(call_stack, Unlit(InnerCall, draw))
    /\ it_op' = "bounce hits light"
    /\ UNCHANGED <<radiance, traversals, outer_calls>>
    /\ UNCHANGED <<aabb_vars, bvh_vars, dn_vars, rn_vars, wk_vars, pk_vars>>

\* lines 358-373: the path continues, the bounce ray hits a surface that
\* does not emit, and shading calls itself
shading_calls_shading ==
    /\ InShading("roulette")
    /\ \E draw \in Draws, throughput \in Throughputs :
           /\ survives(draw)
           /\ call_stack' =
                  Called(Replaced(call_stack,
                             [InnerCall EXCEPT !.at = "deeper", !.draw = draw,
                                               !.throughput = throughput]),
                         ShadingCall(DiffuseMaterial))
    /\ outer_calls' = (outer_calls \/ Len(call_stack) = MaxCalls)
    /\ it_op' = "shading"
    /\ UNCHANGED <<radiance, traversals>>
    /\ UNCHANGED <<aabb_vars, bvh_vars, dn_vars, rn_vars, wk_vars, pk_vars>>

\* lines 373 and 379 in the caller, once its call has returned
Lit(caller, color) ==
    Shaded([caller EXCEPT !.deeper_radiance = color],
           radiance_with_call[caller.radiance_direct, caller.draw, caller.throughput, color])

\* shading returns to shading
shading_returns ==
    /\ Len(call_stack) >= 2
    /\ InnerCall.at = "shaded"
    /\ call_stack' = Append(SubSeq(call_stack, 1, Len(call_stack) - 2),
                            Lit(call_stack[Len(call_stack) - 1], InnerCall.ray_color))
    /\ it_op' = "return"
    /\ UNCHANGED <<radiance, traversals, outer_calls>>
    /\ UNCHANGED <<aabb_vars, bvh_vars, dn_vars, rn_vars, wk_vars, pk_vars>>

\* the oldest call of shading returns to cast_path and RayGen_Shader; when
\* calls older than the recorded ones are pending they return here too,
\* folded into one whose direct radiance and throughput are not recorded
cast_path_returns ==
    /\ Len(call_stack) = 1
    /\ InnerCall.at = "shaded"
    /\ IF outer_calls
       THEN \E direct \in DirectRadiances, draw \in Draws, throughput \in Throughputs :
                /\ survives(draw)
                /\ radiance' = radiance_with_call[direct, draw, throughput, InnerCall.ray_color]
       ELSE radiance' = InnerCall.ray_color
    /\ call_stack' = <<>>
    /\ outer_calls' = FALSE
    /\ it_op' = "cast_path returns"
    /\ UNCHANGED traversals
    /\ UNCHANGED <<aabb_vars, bvh_vars, dn_vars, rn_vars, wk_vars, pk_vars>>

PathNext ==
    \/ cast_path_miss
    \/ cast_path_hit
    \/ shading_emission
    \/ shading_direct
    \/ shading_roulette_ends
    \/ shading_bounce_miss
    \/ shading_bounce_hits_light
    \/ shading_calls_shading
    \/ shading_returns
    \/ cast_path_returns

InitPath == AABBInit /\ BVHInit /\ DenoiserInit /\ RendererInit /\ WorkersInit /\ PackingInit
    /\ IntegratorInit
SpecPath == InitPath /\ [][PathNext]_vars
\* the thread that evaluates the ray keeps running, and the roulette is
\* fair: a draw that ends the path is not withheld forever
SpecPathRuns == SpecPath /\ WF_vars(PathNext) /\ SF_vars(shading_roulette_ends)

\* shading is entered from shading only by a caller that does not emit, drew
\* below RR_survival_probability and waits for the call, and only for a
\* surface that does not emit
CalledOnlyAfterSurvival ==
    \A i \in 2..Len(call_stack) :
        /\ call_stack[i - 1].at = "deeper"
        /\ FLt(call_stack[i - 1].draw, RR_survival_probability)
        /\ ~call_stack[i - 1].emitting
        /\ ~call_stack[i].emitting

\* a call made for an emitting surface returns its emission in one step,
\* and a draw at or above RR_survival_probability returns the direct
\* radiance, without a further call
NoCallWithoutSurvival ==
    (/\ call_stack # <<>>
     /\ call_stack' # <<>>
     /\ \/ InnerCall.emitting
        \/ (InnerCall.at = "roulette"
            /\ call_stack'[Len(call_stack')].at = "shaded"
            /\ FGe(call_stack'[Len(call_stack')].draw, RR_survival_probability)))
    => /\ Len(call_stack') = Len(call_stack)
       /\ call_stack'[Len(call_stack')].at = "shaded"
       /\ outer_calls' = outer_calls

\* C24: the evaluation of any camera ray by the path tracer eventually
\* terminates provided the roulette draws are fair (a draw at or above
\* RR_survival_probability eventually occurs): shading has no depth cap and
\* calls itself only when the draw is below RR_survival_probability and the
\* sampled bounce ray hits a surface that does not emit, never on an
\* emissive hit.
C24_PathTerminatesUnderFairDraws ==
    /\ []CalledOnlyAfterSurvival
    /\ [][NoCallWithoutSurvival]_vars
    /\ (call_stack # <<>>) ~> (call_stack = <<>> /\ radiance # NoRadiance)

\* a path went deeper than the recorded calls, then a draw at or above
\* RR_survival_probability ended it and the calls returned one by one
C24_Witness ==
    /\ outer_calls
    /\ it_op = "return"
    /\ Len(call_stack) = 1
    /\ InnerCall.at = "shaded"
    /\ FLt(InnerCall.draw, RR_survival_probability)
    /\ InnerCall.deeper_radiance # ZeroVec

\* the sum of the indirect term over the first n draws of DrawSequence, the
\* radiance coming back along the bounce and the throughput being fixed
RECURSIVE SumOverDraws(_, _, _)
SumOverDraws(n, deeper_radiance, throughput) ==
    IF n = 0 THEN ZeroVec
    ELSE VAdd(SumOverDraws(n - 1, deeper_radiance, throughput),
              radiance_indirect(DrawSequence[n], deeper_radiance, throughput))

\* the mean of the indirect term over the equally likely draws
ExpectedIndirect(deeper_radiance, throughput) ==
    VScale(Q(1, Len(DrawSequence)),
           SumOverDraws(Len(DrawSequence), deeper_radiance, throughput))

\* the indirect term with the roulette disabled: shading(deeper) * BRDF * dot / PDF
IndirectWithoutRoulette(deeper_radiance, throughput) == VScale(throughput, deeper_radiance)

\* a call of shading has just returned to a caller that does not emit
BounceReturned == call_stack # <<>> /\ InnerCall.at = "shaded" /\ it_op = "return"

\* C21: for a shading point with fixed incoming radiance along the sampled
\* bounce, the expected value of the indirect term over the Russian-roulette
\* draw equals the indirect term evaluated with roulette disabled: a path
\* survives with probability RR_survival_probability and its contribution is
\* divided by that same probability, while terminated paths contribute zero.
C21_RouletteIsUnbiased ==
    /\ Q(Cardinality({draw \in Draws : survives(draw)}), Cardinality(Draws))
           = RR_survival_probability
    /\ BounceReturned =>
           /\ ExpectedIndirect(InnerCall.deeper_radiance, InnerCall.throughput)
                  = IndirectWithoutRoulette(InnerCall.deeper_radiance, InnerCall.throughput)
           /\ \A draw \in Draws :
                  radiance_indirect(draw, InnerCall.deeper_radiance, InnerCall.throughput)
                      = IF FLt(draw, RR_survival_probability)
                        THEN VScale(FDiv(One, RR_survival_probability),
                                    IndirectWithoutRoulette(InnerCall.deeper_radiance,
                                                            InnerCall.throughput))
                        ELSE ZeroVec

\* a bounce brought back radiance that is not zero through a throughput that
\* is not zero, and the caller added it, divided by the survival
\* probability, to its direct radiance
C21_Witness ==
    /\ BounceReturned
    /\ InnerCall.deeper_radiance = VecI(1, 1, 1)
    /\ InnerCall.throughput = Q(1, 2)
    /\ InnerCall.radiance_direct = VecI(1, 1, 1)
    /\ InnerCall.ray_color = Vec(Q(13, 8), Q(13, 8), Q(13, 8))

(***************************************************************************)
(* Both integrators, one camera ray at a time.                             *)
(***************************************************************************)
IntegratorsNext == WhittedNext \/ PathNext
InitIntegrators == AABBInit /\ BVHInit /\ DenoiserInit /\ RendererInit /\ WorkersInit /\ PackingInit
    /\ IntegratorInit
SpecIntegrators == InitIntegrators /\ [][IntegratorsNext]_vars

\* the call of cast_Whitted_ray whose ray has just missed returns sky_color
WhittedMissReturnsSky ==
    it_op' = "miss" =>
        /\ call_stack'[Len(call_stack')].at = "return"
        /\ call_stack'[Len(call_stack')].ray_color = sky_color

\* the cast_path whose camera ray has just missed returns the night sky
CameraMissReturnsSky == it_op' = "cast_path miss" => radiance' = night_sky

\* the bounce ray that has just missed brings the night sky to its shading
\* point: the caller returns its direct radiance plus the sky's radiance
\* through some throughput
BounceMissBringsSky ==
    it_op' = "bounce miss" =>
        \E throughput \in Throughputs \ {Zero} :
            call_stack'[Len(call_stack')].ray_color =
                VAdd(call_stack'[Len(call_stack')].radiance_direct,
                     VScale(FDiv(throughput, RR_survival_probability), night_sky))

\* the bounce ray that has just missed brings nothing: the caller returns
\* its direct radiance alone
BounceMissBringsNothing ==
    it_op' = "bounce miss" =>
        /\ call_stack'[Len(call_stack')].at = "shaded"
        /\ call_stack'[Len(call_stack')].ray_color =
               call_stack'[Len(call_stack')].radiance_direct

\* C23 as stated: whenever BVH traversal of a ray reports a miss, whether
\* the ray is the camera ray or any recursive bounce ray, the integrator
\* returns the scene's constant sky/background radiance for that ray.
C23_Original ==
    [][WhittedMissReturnsSky /\ CameraMissReturnsSky /\ BounceMissBringsSky]_vars

\* C23 as the code has it: cast_Whitted_ray returns sky_color for every ray
\* that misses, camera ray or recursive ray, and cast_path returns the
\* night-sky colour for a camera ray that misses; a bounce ray of the path
\* tracer that misses contributes no radiance, shading returning its direct
\* radiance alone.
C23_MissReturnsSkyExceptPathBounce ==
    [][WhittedMissReturnsSky /\ CameraMissReturnsSky /\ BounceMissBringsNothing]_vars

\* the bounce ray of a call made from shading has just missed, and the call
\* returns the direct radiance it found, without any sky
C23_BounceMissed ==
    /\ it_op = "bounce miss"
    /\ Len(call_stack) >= 2
    /\ InnerCall.at = "shaded"
    /\ InnerCall.radiance_direct = VecI(1, 1, 1)
    /\ InnerCall.ray_color = VecI(1, 1, 1)

(***************************************************************************)
(* The spatial pass of the denoiser (Denoiser.h, JointBilateralFiltering), *)
(* pixel by pixel, on G-buffers with all five channels.                    *)
(***************************************************************************)
JBF_FilterKernelHalfSize == 7
sigma_position == R(32)
sigma_color == Q(3, 5)
sigma_normal == Q(1, 10)
sigma_coplanarity == Q(1, 10)

\* float arithmetic gives exp(-d) = 0 once d exceeds this (e^-104 is below
\* the least positive float)
ExpUnderflow == 104
\* a rational in place of pi / 2
HalfPi == Q(8, 5)

\* std::exp(-d) for d >= 0: 1 at 0, 0 where float underflows, and between
\* them a rational of (0, 1) that falls as d grows, in place of e^-d
std_exp_minus(d) ==
    IF IsNaN(d) THEN NaN
    ELSE IF d = Zero THEN One
    ELSE IF FGt(d, R(ExpUnderflow)) THEN Zero
    ELSE FDiv(One, FAdd(One, d))

\* std::acos on [0, 1]: 0 at 1, pi / 2 at 0, a rational in place of the
\* values between
std_acos(c) == FMul(HalfPi, FSub(One, c))

\* glm::normalize: v * inversesqrt(dot(v, v))
glm_normalize(v) == VScale(FDiv(One, FSqrt(glm_dot(v, v))), v)

\* line 190
world_position_distance(dp) ==
    FDiv(glm_dot(dp, dp), FMul(FMul(R(2), sigma_position), sigma_position))
\* line 193
color_distance(dc) ==
    FDiv(glm_dot(dc, dc), FMul(FMul(R(2), sigma_color), sigma_color))
\* lines 195-197
surface_normal_angle(kernel_normal, center_normal) ==
    std_acos(std_min(std_max(Zero, glm_dot(kernel_normal, center_normal)), One))
surface_normal_distance(angle) ==
    FDiv(FMul(angle, angle), FMul(FMul(R(2), sigma_normal), sigma_normal))
\* lines 199-201
coplanarity_distance(cosine) ==
    FDiv(FMul(cosine, cosine), FMul(FMul(R(2), sigma_coplanarity), sigma_coplanarity))

\* the sum of the four distances of line 203, for the kernel pixel at
\* <<kernel_column, kernel_row>> and the centre at <<column, row>>
total_distance(g, column, row, kernel_column, kernel_row) ==
    FAdd(FAdd(FAdd(
        world_position_distance(VSub(At(g.pixel_world_position, kernel_column, kernel_row),
                                     At(g.pixel_world_position, column, row))),
        color_distance(VSub(At(g.pixel_color, kernel_column, kernel_row),
                            At(g.pixel_color, column, row)))),
        surface_normal_distance(surface_normal_angle(
            At(g.pixel_world_surface_normal, kernel_column, kernel_row),
            At(g.pixel_world_surface_normal, column, row)))),
        coplanarity_distance(glm_dot(
            At(g.pixel_world_surface_normal, column, row),
            glm_normalize(VSub(At(g.pixel_world_position, kernel_column, kernel_row),
                               At(g.pixel_world_position, column, row))))))

\* line 203
kernel_weight(g, column, row, kernel_column, kernel_row) ==
    std_exp_minus(total_distance(g, column, row, kernel_column, kernel_row))

\* lines 204-205: <<unnormalized_weight, filtered_pixel_color>> after one
\* more weighted colour
Accumulated(sums, weight, color) ==
    <<FAdd(sums[1], weight), VAdd(sums[2], VScale(weight, color))>>

\* a loop body that does not skip the pixels that are not contributors
kernel_pixel_step_skipping_none(sums, g, column, row, kernel_column, kernel_row) ==
    IF kernel_column = column /\ kernel_row = row
    THEN <<FAdd(sums[1], One), VAdd(sums[2], At(g.pixel_color, column, row))>>
    ELSE Accumulated(sums, kernel_weight(g, column, row, kernel_column, kernel_row),
                     At(g.pixel_color, kernel_column, kernel_row))

\* lines 173-205: the body of the two loops for one kernel pixel
kernel_pixel_step(sums, g, column, row, kernel_column, kernel_row) ==
    IF At(g.contributor, kernel_column, kernel_row) = 0 THEN sums
    ELSE IF kernel_column = column /\ kernel_row = row
    THEN <<FAdd(sums[1], One), VAdd(sums[2], At(g.pixel_color, column, row))>>
    ELSE Accumulated(sums, kernel_weight(g, column, row, kernel_column, kernel_row),
                     At(g.pixel_color, kernel_column, kernel_row))

\* lines 164-207: the two loops over the first k pixels of the kernel
RECURSIVE kernel_sums(_, _, _, _, _)
kernel_sums(g, column, row, cells, k) ==
    IF k = 0 THEN <<Zero, ZeroVec>>
    ELSE kernel_pixel_step(kernel_sums(g, column, row, cells, k - 1),
                           g, column, row, cells[k][1], cells[k][2])

\* lines 155-158: the kernel of a pixel
JBF_KernelPixels(column, row, width, height) ==
    kernel_sequence(std_max_int(0, column - JBF_FilterKernelHalfSize),
                    std_min_int(width - 1, column + JBF_FilterKernelHalfSize),
                    std_max_int(0, row - JBF_FilterKernelHalfSize),
                    std_min_int(height - 1, row + JBF_FilterKernelHalfSize))

\* lines 209-219
normalized(sums, immediate_clamp) ==
    IF ~immediate_clamp THEN VDiv(sums[2], sums[1])
    ELSE glm_clamp(VDiv(sums[2], sums[1]), ZeroVec, White)

\* lines 147-221: the filtered colour of one pixel
JBF_filtered_pixel(g, column, row, width, height, immediate_clamp) ==
    IF At(g.contributor, column, row) = 0 THEN At(g.pixel_color, column, row)
    ELSE normalized(kernel_sums(g, column, row, JBF_KernelPixels(column, row, width, height),
                                Len(JBF_KernelPixels(column, row, width, height))),
                    immediate_clamp)

\* JointBilateralFiltering: the filtered frame buffer
JointBilateralFiltering(g, using_JBF_filtering, width, height, immediate_clamp) ==
    IF ~using_JBF_filtering THEN g.pixel_color
    ELSE [frame_width |-> width, frame_height |-> height,
          buffer |-> [k \in 1..(width * height) |->
              JBF_filtered_pixel(g, (k - 1) % width, (k - 1) \div width, width, height,
                             immediate_clamp)]]

\* what a primary ray can have found: the sky (blue in place of the night
\* sky's colour; cast_path leaves the normal of an earlier frame in place),
\* the back wall lit or dark, a red side wall, the area light
JBF_Sky == [contributor |-> 0, primitive_id |-> -1, color |-> VecI(0, 0, 1),
            normal |-> VecI(0, 0, 1)]
JBF_Wall == [contributor |-> 1, primitive_id |-> 0, color |-> White, normal |-> VecI(0, 0, 1)]
JBF_Shade == [contributor |-> 1, primitive_id |-> 0, color |-> ZeroVec, normal |-> VecI(0, 0, 1)]
JBF_Side == [contributor |-> 1, primitive_id |-> 1, color |-> VecI(1, 0, 0), normal |-> VecI(1, 0, 0)]
JBF_Light == [contributor |-> 1, primitive_id |-> 2, color |-> VecI(2, 2, 2), normal |-> VecI(0, 0, 1)]
JBF_Hits == {JBF_Sky, JBF_Wall, JBF_Shade, JBF_Side, JBF_Light}

\* the strip of pixels that is filtered
JBF_Width == 3
JBF_Strips == [1..JBF_Width -> JBF_Hits]

\* RayGen_Shader, lines 276-284: the colour stored for a pixel
stored_color(color, immediate_clamping) ==
    IF immediate_clamping THEN glm_clamp(color, ZeroVec, White) ELSE color

\* the G_Buffer after the primary rays of a strip, its pixels 32 apart on
\* the x axis
JBF_G_Buffer(strip, immediate_clamping) ==
    [pixel_world_position |->
        [frame_width |-> JBF_Width, frame_height |-> 1,
         buffer |-> [k \in 1..JBF_Width |-> VecI(32 * (k - 1), 0, 0)]],
     pixel_color |->
        [frame_width |-> JBF_Width, frame_height |-> 1,
         buffer |-> [k \in 1..JBF_Width |-> stored_color(strip[k].color, immediate_clamping)]],
     pixel_world_surface_normal |->
        [frame_width |-> JBF_Width, frame_height |-> 1,
         buffer |-> [k \in 1..JBF_Width |-> strip[k].normal]],
     contributor |->
        [frame_width |-> JBF_Width, frame_height |-> 1,
         buffer |-> [k \in 1..JBF_Width |-> strip[k].contributor]],
     primitive_id |->
        [frame_width |-> JBF_Width, frame_height |-> 1,
         buffer |-> [k \in 1..JBF_Width |-> strip[k].primitive_id]],
     projection_matrix |-> identity_matrix, view_matrix |-> identity_matrix]

\* Render, line 250: the spatial pass on the G_Buffer g
JointBilateralFiltering_on(g, using_JBF_filtering, immediate_clamp) ==
    /\ dn_op' = "JointBilateralFiltering"
    /\ dn_entry' = [g_buffer |-> g, using_JBF_filtering |-> using_JBF_filtering,
                    immediate_clamp |-> immediate_clamp]
    /\ filtered_frame_buffer' =
           JointBilateralFiltering(g, using_JBF_filtering, JBF_Width, 1, immediate_clamp)
    /\ g_buffer' = [g EXCEPT !.pixel_color =
           JointBilateralFiltering(g, using_JBF_filtering, JBF_Width, 1, immediate_clamp)]

\* one frame is filtered in a behaviour
Call_JointBilateralFiltering ==
    /\ dn_op = "Denoiser"
    /\ \E strip \in JBF_Strips, using_JBF_filtering \in BOOLEAN, immediate_clamp \in BOOLEAN :
           JointBilateralFiltering_on(JBF_G_Buffer(strip, immediate_clamp),
                                      using_JBF_filtering, immediate_clamp)
    /\ frame_width' = JBF_Width
    /\ frame_height' = 1
    /\ UNCHANGED <<using_temporal_filtering, current_frame_weighting, accessible_previous_frame,
                   previous_frame_g_buffer, frames, restarted>>
    /\ UNCHANGED <<aabb_vars, bvh_vars, rn_vars, wk_vars, pk_vars, it_vars>>

JBFNext == Call_JointBilateralFiltering
InitJBF == AABBInit /\ BVHInit /\ DenoiserInit /\ RendererInit /\ WorkersInit /\ PackingInit
    /\ IntegratorInit
SpecJBF == InitJBF /\ [][JBFNext]_vars

\* the pixels of the strip, and those that are contributors
JBF_Columns == 0..(JBF_Width - 1)
Contributes(g, column) == At(g.contributor, column, 0) # 0
OtherContributors(g, column) ==
    {kernel_column \in JBF_Columns : kernel_column # column /\ Contributes(g, kernel_column)}

\* the sums the loops of a pixel end with: <<unnormalized_weight, filtered_pixel_color>>
FinalSums(g, column) ==
    kernel_sums(g, column, 0, JBF_KernelPixels(column, 0, JBF_Width, 1),
                Len(JBF_KernelPixels(column, 0, JBF_Width, 1)))

\* the centre's weight 1 and colour plus the weights and weighted colours of
\* the given kernel pixels
RECURSIVE WeightedSums(_, _, _)
WeightedSums(g, column, pixels) ==
    IF pixels = {} THEN <<One, At(g.pixel_color, column, 0)>>
    ELSE LET kernel_column == CHOOSE p \in pixels : TRUE
             rest == WeightedSums(g, column, pixels \ {kernel_column})
             weight == kernel_weight(g, column, 0, kernel_column, 0)
         IN  <<FAdd(rest[1], weight),
               VAdd(rest[2], VScale(weight, At(g.pixel_color, kernel_column, 0)))>>

\* a colour lies, channel by channel, between the least and the greatest
\* of the colours of the centre and the other contributors
WithinContributors(color, g, column) ==
    \A c \in 1..3 :
        /\ \E k \in OtherContributors(g, column) \cup {column} :
               FLe(At(g.pixel_color, k, 0)[c], color[c])
        /\ \E k \in OtherContributors(g, column) \cup {column} :
               FLe(color[c], At(g.pixel_color, k, 0)[c])

\* the spatial pass has run, filter switched on
JBF_Filtered == dn_op = "JointBilateralFiltering" /\ dn_entry.using_JBF_filtering

\* all of C26 but the range of the weights, for the pixel at a column
NormalisationIsConvex(g, column) ==
    IF Contributes(g, column)
    THEN /\ FinalSums(g, column) = WeightedSums(g, column, OtherContributors(g, column))
         /\ FGe(FinalSums(g, column)[1], One)
         /\ VScale(FinalSums(g, column)[1], At(filtered_frame_buffer, column, 0))
                = FinalSums(g, column)[2]
         /\ WithinContributors(At(filtered_frame_buffer, column, 0), g, column)
    ELSE At(filtered_frame_buffer, column, 0) = At(g.pixel_color, column, 0)

\* C26 as stated: for every contributing pixel the spatial filter's
\* accumulated weight is at least 1: the centre pixel adds weight exactly 1,
\* every other contributing kernel pixel adds a weight in (0,1], and
\* non-contributing kernel pixels add nothing; hence normalisation never
\* divides by zero and the output is a convex combination of the colours of
\* contributing kernel pixels, while a non-contributing centre pixel is
\* copied through unchanged.
C26_Original ==
    JBF_Filtered =>
        \A column \in JBF_Columns :
            /\ NormalisationIsConvex(dn_entry.g_buffer, column)
            /\ Contributes(dn_entry.g_buffer, column) =>
                   \A kernel_column \in OtherContributors(dn_entry.g_buffer, column) :
                       /\ FGt(kernel_weight(dn_entry.g_buffer, column, 0, kernel_column, 0), Zero)
                       /\ FLe(kernel_weight(dn_entry.g_buffer, column, 0, kernel_column, 0), One)

\* C26 as the code has it: the same, with every other contributing kernel
\* pixel adding a weight in [0,1]: in float arithmetic exp gives exactly 0
\* for a large distance, as between two surfaces at a right angle.
C26_WeightAtLeastOne ==
    JBF_Filtered =>
        \A column \in JBF_Columns :
            /\ NormalisationIsConvex(dn_entry.g_buffer, column)
            /\ Contributes(dn_entry.g_buffer, column) =>
                   \A kernel_column \in OtherContributors(dn_entry.g_buffer, column) :
                       /\ FGe(kernel_weight(dn_entry.g_buffer, column, 0, kernel_column, 0), Zero)
                       /\ FLe(kernel_weight(dn_entry.g_buffer, column, 0, kernel_column, 0), One)

\* the lit back wall beside the dark back wall and a side wall: the dark
\* pixel weighs 3/17, the side wall's pixel weighs 0, and the wall's pixel
\* comes out as 17/20 of white
C26_ZeroWeightBesideCorner ==
    /\ JBF_Filtered
    /\ dn_entry.g_buffer = JBF_G_Buffer(<<JBF_Wall, JBF_Shade, JBF_Side>>, FALSE)
    /\ kernel_weight(dn_entry.g_buffer, 0, 0, 1, 0) = Q(3, 17)
    /\ kernel_weight(dn_entry.g_buffer, 0, 0, 2, 0) = Zero
    /\ FinalSums(dn_entry.g_buffer, 0)[1] = Q(20, 17)
    /\ At(filtered_frame_buffer, 0, 0) = Vec(Q(17, 20), Q(17, 20), Q(17, 20))

====
